---- MODULE Spec2Model ----
(***************************************************************************)
(* Fetch-orchestration and sentiment-annotation pipeline of the            *)
(* eminsights backend: the Sentiment Annotation Gateway                    *)
(* (services/sentiment.service.js, Python-service variant) and the Search  *)
(* Orchestrator (controllers/search.brand.controller.js).                  *)
(*                                                                         *)
(* Conventions                                                             *)
(*  - a JavaScript string is a sequence of one-character strings;          *)
(*    "" and a missing field are both the empty sequence (both are falsy   *)
(*    for the || chains the code uses);                                    *)
(*  - null / undefined are the strings "null" / "undefined";               *)
(*  - scores are kept as decimal strings ("0.85"), only their presence     *)
(*    matters to the code modelled here;                                   *)
(*  - options.concurrency is kept in tenths (2 stands for 0.2), so that    *)
(*    concurrency * 10 stays an integer.                                   *)
(***************************************************************************)
EXTENDS Integers, Sequences, FiniteSets, TLC

\* ------------------------------------------------------------------------
\* Bounds of the model
\* ------------------------------------------------------------------------
MaxPosts == 3

\* ------------------------------------------------------------------------
\* Program constants
\* ------------------------------------------------------------------------
maxRetries == 2
retryDelayMs == 1000
BatchCap == 50
BatchFactor == 10
MinTextLength == 3

null == "null"
undefined == "undefined"

SENTIMENT_LABELS == {"positive", "neutral", "negative"}

Min(a, b) == IF a < b THEN a ELSE b
Max(a, b) == IF a > b THEN a ELSE b

RECURSIVE Pow2(_)
Pow2(n) == IF n = 0 THEN 1 ELSE 2 * Pow2(n - 1)

\* ------------------------------------------------------------------------
\* Text extraction
\* ------------------------------------------------------------------------
IsWs(c) == c = " "

RECURSIVE TrimLeft(_)
TrimLeft(s) == IF s # <<>> /\ IsWs(Head(s)) THEN TrimLeft(Tail(s)) ELSE s

RECURSIVE TrimRight(_)
TrimRight(s) ==
  IF s # <<>> /\ IsWs(s[Len(s)]) THEN TrimRight(SubSeq(s, 1, Len(s) - 1)) ELSE s

\* String.prototype.trim
Trim(s) == TrimRight(TrimLeft(s))

\* s.replace(/\s+/g, " ")
RECURSIVE CollapseWs(_)
CollapseWs(s) ==
  IF s = <<>> THEN <<>>
  ELSE IF IsWs(Head(s))
       THEN <<" ">> \o CollapseWs(TrimLeft(s))
       ELSE <<Head(s)>> \o CollapseWs(Tail(s))

\* a || b on strings: the empty string is falsy, a whitespace-only one is not
OrStr(a, b) == IF a # <<>> THEN a ELSE b

extractText(post) ==
  IF post.platform = "google"
  THEN LET title == post.title
           snippet == OrStr(post.text, post.description)
           combined == Trim(title \o <<" ">> \o snippet)
       IN IF Len(combined) >= MinTextLength THEN CollapseWs(combined) ELSE <<>>
  ELSE LET text == OrStr(post.text, OrStr(post.description, post.title))
           cleanedText == CollapseWs(Trim(text))
       IN IF Len(cleanedText) < MinTextLength THEN <<>> ELSE cleanedText

\* ------------------------------------------------------------------------
\* Inputs
\* ------------------------------------------------------------------------
\* post contents the inputs are drawn from (content.text, content.description,
\* title); the id is the position in the submitted array
PostPool ==
  { [platform |-> "reddit", text |-> <<"a", "b", "c">>, description |-> <<>>, title |-> <<>>],
    [platform |-> "reddit", text |-> <<" ", " ">>, description |-> <<"a", "b", "c">>, title |-> <<>>],
    [platform |-> "youtube", text |-> <<>>, description |-> <<"a", " ", " ", "b">>, title |-> <<>>],
    [platform |-> "google", text |-> <<"b">>, description |-> <<>>, title |-> <<"a">>] }

MkPost(c, n) ==
  [id |-> n, platform |-> c.platform, text |-> c.text,
   description |-> c.description, title |-> c.title]

PostSeqs(n) == { [k \in 1..n |-> MkPost(f[k], k)] : f \in [1..n -> PostPool] }

\* options.concurrency in tenths: batch sizes 1, 2 and 50
ConcurrencyChoices == {0, 2, 50}

\* one entry of the remote service's results array
ResultPool ==
  { [sentiment |-> "positive", sentimentScore |-> "0.85", sentimentSource |-> "llm", error |-> undefined],
    [sentiment |-> null, sentimentScore |-> null, sentimentSource |-> undefined, error |-> "NO_TEXT"],
    [sentiment |-> "mixed", sentimentScore |-> "0.5", sentimentSource |-> undefined, error |-> undefined],
    [sentiment |-> "neutral", sentimentScore |-> undefined, sentimentSource |-> "llm", error |-> undefined] }

ResultSeqs(n) == UNION { [1..k -> ResultPool] : k \in 0..n }

\* what one axios.post to /analyze can come back with
RawOutcomes(n) ==
  { [kind |-> "ok", results |-> r, code |-> "", status |-> 200] : r \in ResultSeqs(n) }
  \cup { [kind |-> "noresults", results |-> <<>>, code |-> "", status |-> 200] }
  \cup { [kind |-> "http", results |-> <<>>, code |-> "ERR_BAD_RESPONSE", status |-> s] : s \in {400, 503} }
  \cup { [kind |-> "noresponse", results |-> <<>>, code |-> c, status |-> 0] : c \in {"ECONNREFUSED"} }

\* the spec's failure classes of one attempt
TransportClass(raw) == raw.kind = "noresponse" \/ (raw.kind = "http" /\ raw.status >= 500)
ValidationClass(raw) == raw.kind = "http" /\ raw.status >= 400 /\ raw.status < 500

\* ------------------------------------------------------------------------
\* Gateway state
\* ------------------------------------------------------------------------
VARIABLES
  mode,         \* "batch": analyzePostsSentiment, "single": analyzePostSentiment
  posts,        \* the submitted posts
  concurrency,  \* options.concurrency (tenths)
  gpc,          \* "start", "call" (awaiting fn() in retryWithBackoff), "done"
  i,            \* start index of the current sub-batch
  attempt,      \* retryWithBackoff's attempt counter
  results,      \* results array / the single outcome
  errors,
  successful,
  failed,
  calls,        \* every request sent to /analyze, in order
  delays        \* every backoff delay slept, in order

gvars == <<mode, posts, concurrency, gpc, i, attempt, results, errors,
           successful, failed, calls, delays>>

\* ------------------------------------------------------------------------
\* Orchestrator state
\* ------------------------------------------------------------------------
VARIABLES
  brand,          \* the Brand document in the database
  store,          \* the SocialPost collection
  activeJobs,     \* cronManager's activeJobs: group ids with a live cron job
  rkind,          \* handler in progress: "none", "runSearch", "group"
  rpc,            \* "idle", "fetch", "analyze", "save", "done"
  reqBrand,       \* the Brand document as the handler read it
  executions,     \* groupsToExecute of runSearch
  todo,           \* the (group, platform, keyword) iterations still to run
  postsToInsert,
  summary,
  remoteKind,     \* how /analyze answered this run: "none" before the call
  gatewayOut,     \* what analyzePostsSentiment returned to this run
  analyzedPosts,
  response,       \* the JSON answer of the handler
  fetchLog,       \* every Fetcher invocation of the current run
  inserted,       \* the documents the current run added to the store
  runsStarted

rvars == <<brand, store, activeJobs, rkind, rpc, reqBrand, executions,
           todo, postsToInsert, summary, remoteKind, gatewayOut, analyzedPosts,
           response, fetchLog, inserted, runsStarted>>

\* ------------------------------------------------------------------------
\* Fetcher adapter state
\* ------------------------------------------------------------------------
VARIABLES
  adapter,   \* the adapter being called
  fenv,      \* what the adapter finds: cached Reddit token, MetaAccount
  fstage,    \* the HTTP request the adapter is awaiting, "idle" or "done"
  fcalls,    \* the HTTP requests made so far and how upstream answered
  fresult    \* what the adapter handed back to its caller

fvars == <<adapter, fenv, fstage, fcalls, fresult>>

\* ------------------------------------------------------------------------
\* Persistence state: the save blocks of two runs of one handler, which may
\* overlap in time
\* ------------------------------------------------------------------------
VARIABLES
  handler,   \* "group": runKeywordGroupSearch, "runSearch": runSearch and
             \* runSearchForBrand (the same save block)
  subs       \* per run: analyzedPosts, where its save block stands, its counters

pvars == <<handler, subs>>

\* the Orchestrator's variables other than the SocialPost collection
hvars == <<brand, activeJobs, rkind, rpc, reqBrand, executions,
           todo, postsToInsert, summary, remoteKind, gatewayOut, analyzedPosts,
           response, fetchLog, inserted, runsStarted>>

\* ------------------------------------------------------------------------
\* Supervisor state (PythonServiceManager and the server process around it)
\* ------------------------------------------------------------------------
VARIABLES
  node,          \* the server process: "init", "up", "exited"
  external,      \* a scoring service not spawned by the Supervisor is running
  isStarting,    \* this.isStarting
  process,       \* this.process: the pid of the last spawned child, 0 for null
  restartCount,  \* this.restartCount
  children,      \* pid -> "none", "failed" (spawn error), "loading", "ready", "dead"
  signalled,     \* children that were sent SIGTERM
  timers,        \* pending setTimeout(() => this.start(), 5000), oldest first
  startCalls     \* the start() calls made so far and where each stands

svars == <<node, external, isStarting, process, restartCount, children,
           signalled, timers, startCalls>>

\* ------------------------------------------------------------------------
\* Sentiment maintenance state (manual override, save, automated jobs)
\* ------------------------------------------------------------------------
VARIABLES
  socialPosts,   \* post id -> sentiment fields of the stored SocialPost
  changeLog,     \* the SentimentChangeLog collection, oldest first
  overrides,     \* the PATCH /api/sentiment/manual requests and where each stands
  job            \* the automated job in progress, if any

mvars == <<socialPosts, changeLog, overrides, job>>

\* ------------------------------------------------------------------------
\* Scheduler state (cronManager, the toggle and group-run endpoints)
\* ------------------------------------------------------------------------
VARIABLES
  booted,        \* scheduleAllGroups has run and the server listens
  groupStatus,   \* key -> status of the keyword group as stored in the brand
  cronJobs,      \* cronManager's activeJobs object: key -> task, 0 for none
  cronTasks,     \* every task cron.schedule has created: [key, stopped]
  lastSeen,      \* key -> status the latest scheduleKeywordGroup call saw
  toggles,       \* the toggle requests and where each stands
  groupRuns      \* the group-run requests and where each stands

cvars == <<booted, groupStatus, cronJobs, cronTasks, lastSeen, toggles, groupRuns>>

\* ------------------------------------------------------------------------
\* Reddit bearer token state (redditAuth)
\* ------------------------------------------------------------------------
VARIABLES
  cachedToken,   \* the cached token, 0 for null
  tokenExpired,  \* new Date() >= tokenExpiry
  tokensIssued,  \* tokens the token endpoint has answered with so far
  tokenCalls     \* the getRedditAccessToken calls and where each stands

tvars == <<cachedToken, tokenExpired, tokensIssued, tokenCalls>>

vars == <<gvars, rvars, fvars, pvars, svars, mvars, cvars, tvars>>

\* ------------------------------------------------------------------------
\* Errors
\* ------------------------------------------------------------------------
APIError == [name |-> "APIError", code |-> "API_ERROR", hasResponse |-> FALSE, status |-> 0]

\* callPythonService: the results array, or the APIError every failure is
\* wrapped into (an axios error with a response, one without, and a 200
\* without a results field alike)
callPythonService(raw) ==
  IF raw.kind = "ok"
  THEN [threw |-> FALSE, value |-> raw.results, error |-> APIError]
  ELSE [threw |-> TRUE, value |-> <<>>, error |-> APIError]

isNetworkErrorAlways(error) == TRUE

isNetworkError(error) ==
  \/ error.code = "ECONNREFUSED"
  \/ error.code = "ETIMEDOUT"
  \/ error.code = "ENOTFOUND"
  \/ (error.hasResponse /\ error.status >= 500)

\* the catch block of retryWithBackoff after a failed attempt
RetryDecision(att, error) ==
  IF att < maxRetries /\ isNetworkError(error) THEN "retry"
  ELSE IF ~isNetworkError(error) THEN "throw"
  ELSE "exhausted"

BackoffDelay(att) == retryDelayMs * Pow2(att)

\* the error analyzePostsSentiment's catch sees
ThrownError(decision, error) == IF decision = "throw" THEN error ELSE APIError

\* ------------------------------------------------------------------------
\* Batch analyze
\* ------------------------------------------------------------------------
batchSize(c) == Max(1, Min(BatchCap, (c * BatchFactor) \div 10))

BatchAt(ps, start, c) == SubSeq(ps, start + 1, Min(start + batchSize(c), Len(ps)))

Truthy(v) == v \notin {null, undefined, ""}

OrVal(a, b) == IF Truthy(a) THEN a ELSE b

\* result && result.sentiment
HasSentiment(batchResults, j) == j <= Len(batchResults) /\ Truthy(batchResults[j].sentiment)

ResultError(batchResults, j) ==
  IF j <= Len(batchResults) THEN OrVal(batchResults[j].error, "NO_RESULT") ELSE "NO_RESULT"

AnnotatedPostOffByOne(post, batchResults, j) ==
  IF HasSentiment(batchResults, j + 1)
  THEN [post |-> post,
        sentiment |-> batchResults[j + 1].sentiment,
        sentimentScore |-> batchResults[j + 1].sentimentScore,
        sentimentSource |-> OrVal(batchResults[j + 1].sentimentSource, "llm"),
        sentimentError |-> null,
        error |-> undefined]
  ELSE [post |-> post,
        sentiment |-> null,
        sentimentScore |-> null,
        sentimentSource |-> "error",
        sentimentError |-> ResultError(batchResults, j + 1),
        error |-> undefined]

\* one iteration of the for-j loop: the entry pushed onto results
AnnotatedPost(post, batchResults, j) ==
  IF HasSentiment(batchResults, j)
  THEN [post |-> post,
        sentiment |-> batchResults[j].sentiment,
        sentimentScore |-> batchResults[j].sentimentScore,
        sentimentSource |-> OrVal(batchResults[j].sentimentSource, "llm"),
        sentimentError |-> null,
        error |-> undefined]
  ELSE [post |-> post,
        sentiment |-> null,
        sentimentScore |-> null,
        sentimentSource |-> "error",
        sentimentError |-> ResultError(batchResults, j),
        error |-> undefined]

ErrorEntry(post, code) == [postId |-> post.id, platform |-> post.platform, error |-> code]

\* the errors.push calls of the for-j loop, from position j on
RECURSIVE BatchErrors(_, _, _)
BatchErrors(batch, batchResults, j) ==
  IF j > Len(batch) THEN <<>>
  ELSE IF HasSentiment(batchResults, j)
       THEN BatchErrors(batch, batchResults, j + 1)
       ELSE <<ErrorEntry(batch[j], ResultError(batchResults, j))>>
            \o BatchErrors(batch, batchResults, j + 1)

ProcessBatchResultsOverAnswer(batch, batchResults) ==
  LET n == Min(Len(batch), Len(batchResults))
      failedIdx == { j \in 1..n : ~HasSentiment(batchResults, j) }
  IN [results |-> [j \in 1..n |-> AnnotatedPost(batch[j], batchResults, j)],
      errors |-> BatchErrors(SubSeq(batch, 1, n), batchResults, 1),
      successful |-> n - Cardinality(failedIdx),
      failed |-> Cardinality(failedIdx)]

\* the try branch: what one answered sub-batch adds
ProcessBatchResults(batch, batchResults) ==
  LET failedIdx == { j \in 1..Len(batch) : ~HasSentiment(batchResults, j) }
  IN [results |-> [j \in 1..Len(batch) |-> AnnotatedPost(batch[j], batchResults, j)],
      errors |-> BatchErrors(batch, batchResults, 1),
      successful |-> Len(batch) - Cardinality(failedIdx),
      failed |-> Cardinality(failedIdx)]

FailBatchDropsPosts(batch, error) ==
  [results |-> <<>>,
   errors |-> [j \in 1..Len(batch) |-> ErrorEntry(batch[j], OrVal(error.code, "BATCH_ERROR"))],
   successful |-> 0,
   failed |-> Len(batch)]

\* the catch branch: every post of the sub-batch is marked failed
FailBatch(batch, error) ==
  [results |-> [j \in 1..Len(batch) |->
                  [post |-> batch[j],
                   sentiment |-> null,
                   sentimentScore |-> null,
                   sentimentSource |-> "error",
                   sentimentError |-> OrVal(error.code, "BATCH_ERROR"),
                   error |-> undefined]],
   errors |-> [j \in 1..Len(batch) |-> ErrorEntry(batch[j], OrVal(error.code, "BATCH_ERROR"))],
   successful |-> 0,
   failed |-> Len(batch)]

CallEntry(start, att, batch, raw) ==
  [start |-> start, attempt |-> att, sent |-> [j \in 1..Len(batch) |-> batch[j].id],
   kind |-> raw.kind, status |-> raw.status, answer |-> raw.results]

\* ------------------------------------------------------------------------
\* Single-post analyze
\* ------------------------------------------------------------------------
NoTextOutcome(post) ==
  [post |-> post, sentiment |-> null, sentimentScore |-> null,
   sentimentSource |-> "none", sentimentError |-> undefined, error |-> "NO_TEXT"]

ErrorOutcome(post, error) ==
  [post |-> post, sentiment |-> null, sentimentScore |-> null,
   sentimentSource |-> "error", sentimentError |-> undefined,
   error |-> OrVal(error.code, "UNKNOWN_ERROR")]

\* the return after a successful call; an empty results array throws
SingleOutcome(post, res) ==
  IF Len(res) = 0 THEN ErrorOutcome(post, APIError)
  ELSE [post |-> post,
        sentiment |-> OrVal(res[1].sentiment, "neutral"),
        sentimentScore |-> OrVal(res[1].sentimentScore, "0.5"),
        sentimentSource |-> OrVal(res[1].sentimentSource, "llm"),
        sentimentError |-> undefined,
        error |-> undefined]

\* ------------------------------------------------------------------------
\* Fetcher adapters
\* ------------------------------------------------------------------------
MaxUpstreamItems == 2

ADAPTERS ==
  {"fetchYouTubeSearch", "fetchGoogleSearch", "fetchTwitterSearch", "fetchRedditSearch",
   "fetchInstagramSearch", "fetchInstagramSearchAnyAccount", "fetchFacebookPublicPosts"}

PlatformOf(a) ==
  CASE a = "fetchYouTubeSearch" -> "youtube"
    [] a = "fetchGoogleSearch" -> "google"
    [] a = "fetchTwitterSearch" -> "twitter"
    [] a = "fetchRedditSearch" -> "reddit"
    [] a = "fetchFacebookPublicPosts" -> "facebook"
    [] OTHER -> "instagram"

\* how upstream answers one HTTP request: a 2xx with n entries, or a failure
HttpFailures == {"auth", "quota", "network"}

HttpOutcomes ==
  { [ok |-> TRUE, n |-> n, cause |-> "none"] : n \in 0..MaxUpstreamItems }
  \cup { [ok |-> FALSE, n |-> 0, cause |-> c] : c \in HttpFailures }

\* what the caller of an adapter gets
Returned(platform, n) ==
  [threw |-> FALSE, kind |-> "array", count |-> 0,
   items |-> [k \in 1..n |-> [platform |-> platform, sourceUrl |-> k]]]

ReturnedNumber(n) == [threw |-> FALSE, kind |-> "number", count |-> n, items |-> <<>>]

Thrown == [threw |-> TRUE, kind |-> "none", count |-> 0, items |-> <<>>]

NoResult == [threw |-> FALSE, kind |-> "none", count |-> 0, items |-> <<>>]

Awaiting(stage) == [stage |-> stage, result |-> NoResult]

Settled(result) == [stage |-> "done", result |-> result]

\* the adapter up to its first HTTP request
AdapterStart(a, env) ==
  CASE a = "fetchRedditSearch" ->
         Awaiting(IF env.tokenCached THEN "search" ELSE "token")
    [] a \in {"fetchInstagramSearch", "fetchInstagramSearchAnyAccount"} ->
         IF env.account = "ok" THEN Awaiting("hashtag")
         ELSE Settled(Returned("instagram", 0))
    [] a = "fetchFacebookPublicPosts" ->
         IF env.account = "ok" THEN Awaiting("pagePosts")
         ELSE Settled(ReturnedNumber(0))
    [] OTHER -> Awaiting("search")

\* what the code awaiting `stage` does with the answer o
AdapterStep(a, stage, o) ==
  CASE a = "fetchYouTubeSearch" ->
         IF ~o.ok \/ o.n = 0 THEN Settled(Returned("youtube", 0))
         ELSE IF stage = "search" THEN Awaiting("stats")
         ELSE Settled(Returned("youtube", o.n))
    [] a \in {"fetchGoogleSearch", "fetchTwitterSearch"} ->
         Settled(Returned(PlatformOf(a), IF o.ok THEN o.n ELSE 0))
    [] a = "fetchRedditSearch" ->
         IF ~o.ok THEN Settled(Returned("reddit", 0))
         ELSE IF stage = "token" THEN Awaiting("search")
         ELSE Settled(Returned("reddit", o.n))
    [] a \in {"fetchInstagramSearch", "fetchInstagramSearchAnyAccount"} ->
         IF o.ok
         THEN IF stage = "hashtag" /\ o.n > 0 THEN Awaiting("media5")
              ELSE IF stage = "hashtag" THEN Settled(Returned("instagram", 0))
              ELSE Settled(Returned("instagram", o.n))
         ELSE IF stage = "media5" THEN Awaiting("media10")
              ELSE IF a = "fetchInstagramSearch" THEN Settled(Thrown)
              ELSE Settled(Returned("instagram", 0))
    [] OTHER ->
         Settled(ReturnedNumber(IF o.ok THEN o.n ELSE 0))

FetchIdle ==
  /\ adapter = "none"
  /\ fenv = [tokenCached |-> FALSE, account |-> "none"]
  /\ fstage = "idle"
  /\ fcalls = <<>>
  /\ fresult = NoResult

\* ------------------------------------------------------------------------
\* Gateway actions (the Orchestrator's variables rest while the Gateway is
\* exercised on its own)
\* ------------------------------------------------------------------------
\* no answer has been sent yet
NoResponse == [status |-> 0, success |-> FALSE, fetched |-> 0, analyzed |-> 0,
               failed |-> 0, saved |-> 0, duplicates |-> 0]

NoBrand == [brandName |-> "", keywords |-> <<>>, platforms |-> <<>>, keywordGroups |-> <<>>]

\* no run in progress
HandlerIdle ==
  /\ rkind = "none"
  /\ rpc = "idle"
  /\ reqBrand = NoBrand
  /\ executions = <<>>
  /\ todo = <<>>
  /\ postsToInsert = <<>>
  /\ summary = <<>>
  /\ remoteKind = "none"
  /\ gatewayOut = <<>>
  /\ analyzedPosts = <<>>
  /\ response = NoResponse
  /\ fetchLog = {}
  /\ inserted = {}
  /\ runsStarted = 0

\* ------------------------------------------------------------------------
\* Supervisor
\* ------------------------------------------------------------------------
maxRestarts == 3

\* start() calls the program can make: one at server startup and one per restart
MaxStartCalls == maxRestarts + 1

Pids == 1..MaxStartCalls

Alive == { p \in Pids : children[p] \in {"loading", "ready"} }

\* what GET /health can answer: healthy needs a running service with its
\* model loaded, and the request can still time out
HealthAnswers ==
  IF external \/ (\E p \in Pids : children[p] = "ready") THEN {TRUE, FALSE} ELSE {FALSE}

\* start() up to its first await; a call that finds isStarting set only polls
\* the health endpoint (waitForHealthy) and changes nothing
StartEntered(origin) ==
  IF isStarting
  THEN [origin |-> origin, pc |-> "wait", pid |-> 0, startupComplete |-> FALSE,
        timeoutPending |-> FALSE, outcome |-> "none", readyBy |-> "none"]
  ELSE [origin |-> origin, pc |-> "health", pid |-> 0, startupComplete |-> FALSE,
        timeoutPending |-> FALSE, outcome |-> "none", readyBy |-> "none"]

restartDelayMs == 5000

\* the exit handler schedules a restart after every non-zero exit code
TimersAfterExitUnlimited(p, code) ==
  IF code \notin {"0", "null"}
  THEN Append(timers, [delayMs |-> restartDelayMs, after |-> p, code |-> code])
  ELSE timers

\* the exit handler: a restart is scheduled for a non-zero exit code while
\* restarts are left
TimersAfterExit(p, code) ==
  IF code \notin {"0", "null"} /\ restartCount < maxRestarts
  THEN Append(timers, [delayMs |-> restartDelayMs, after |-> p, code |-> code])
  ELSE timers

SupervisorIdle ==
  /\ node = "init"
  /\ external = FALSE
  /\ isStarting = FALSE
  /\ process = 0
  /\ restartCount = 0
  /\ children = [p \in Pids |-> "none"]
  /\ signalled = {}
  /\ timers = <<>>
  /\ startCalls = <<>>

\* ------------------------------------------------------------------------
\* Sentiment maintenance
\* ------------------------------------------------------------------------
MaxOverrides == 2

PostIds == <<"p1", "p2">>

PostIdSet == { PostIds[k] : k \in 1..Len(PostIds) }

\* the labels updateManualSentiment allows
allowed == {"positive", "neutral", "negative"}

\* String(sentiment).toLowerCase() on the request values used here
toLowerCase(x) == IF x = "NEUTRAL" THEN "neutral" ELSE x

\* request bodies of PATCH /api/sentiment/manual
SentimentInputs == {"NEUTRAL", "mixed", null}

Users == {"u1"}

\* a stored post before and after an automated analysis
Unanalysed == [sentiment |-> null, sentimentIsManual |-> FALSE, sentimentSource |-> null]

AutoLabelled(label) ==
  [sentiment |-> label, sentimentIsManual |-> FALSE, sentimentSource |-> "llm"]

NoOverride ==
  [pc |-> "idle", postId |-> null, sentiment |-> null, user |-> null,
   existing |-> null, before |-> null, wrote |-> FALSE, status |-> 0]

NoJob == [kind |-> "none", pc |-> "idle", found |-> <<>>, analyzed |-> <<>>,
          pos |-> 0, keepsId |-> TRUE]

SentimentIdle ==
  /\ socialPosts = [p \in PostIdSet |-> Unanalysed]
  /\ changeLog = <<>>
  /\ overrides = [k \in 1..MaxOverrides |-> NoOverride]
  /\ job = NoJob

\* applySentimentUpdate with markManual and sentimentSource "manual"
applySentimentUpdate(coll, postId, sentiment) ==
  IF postId \in DOMAIN coll
  THEN [coll EXCEPT ![postId] = [sentiment |-> sentiment,
                                 sentimentIsManual |-> TRUE,
                                 sentimentSource |-> "manual"]]
  ELSE coll

JOBS == {"backfill", "reanalyze", "batchAnalyze"}

\* the find() filter of each job
Selected(kind, post) ==
  IF kind = "reanalyze"
  THEN post.sentiment \in {"neutral", null}
  ELSE post.sentiment = null

SelectedIds(kind) == SelectSeq(PostIds, LAMBDA p : Selected(kind, socialPosts[p]))

\* what the Gateway can answer for one post: a label, or null for a failed post
AnalysisLabels == {"positive", "neutral", null}

\* the $set of one updateOne of a job on the post it matches
JobUpdate(kind, post, label) ==
  IF kind = "reanalyze"
  THEN IF label # null /\ label # "neutral"
       THEN [post EXCEPT !.sentiment = label, !.sentimentSource = "vader_reanalysis"]
       ELSE [post EXCEPT !.sentimentSource = "vader_reanalysis"]
  ELSE [post EXCEPT !.sentiment = label]

\* updateOne({ _id: target }, { $set }) of a job
JobUpdateOne(kind, coll, target, label) ==
  IF target \in DOMAIN coll
  THEN [coll EXCEPT ![target] = JobUpdate(kind, coll[target], label)]
  ELSE coll

\* ------------------------------------------------------------------------
\* Scheduler
\* ------------------------------------------------------------------------
MaxToggles == 2

MaxConcurrentRuns == 2

MaxCronTasks == 2

\* `${brand.brandName}_${group.groupName}` of the two groups of the brand
GroupKeys == {"b1_g1", "b1_g2"}

NoToggle == [pc |-> "idle", key |-> "", status |-> "", http |-> 0]

NoGroupRun == [pc |-> "idle", key |-> "", http |-> 0]

SchedulerIdle ==
  /\ booted = FALSE
  /\ groupStatus = [k \in GroupKeys |-> "running"]
  /\ cronJobs = [k \in GroupKeys |-> 0]
  /\ cronTasks = <<>>
  /\ lastSeen = [k \in GroupKeys |-> "none"]
  /\ toggles = [t \in 1..MaxToggles |-> NoToggle]
  /\ groupRuns = [r \in 1..MaxConcurrentRuns |-> NoGroupRun]

\* activeJobs[key].stop() on the task list
StopTask(tasks, key, jobs) ==
  IF jobs[key] # 0 THEN [tasks EXCEPT ![jobs[key]].stopped = TRUE] ELSE tasks

\* the previous job is dropped from activeJobs but left running
scheduleKeywordGroupNoStop(jobs, tasks, key, status) ==
  IF status = "paused"
  THEN [jobs |-> [jobs EXCEPT ![key] = 0], tasks |-> tasks]
  ELSE [jobs |-> [jobs EXCEPT ![key] = Len(tasks) + 1],
        tasks |-> Append(tasks, [key |-> key, stopped |-> FALSE])]

\* scheduleKeywordGroup(brand, group): it has no await, so it runs as one step
scheduleKeywordGroup(jobs, tasks, key, status) ==
  IF status = "paused"
  THEN [jobs |-> [jobs EXCEPT ![key] = 0], tasks |-> StopTask(tasks, key, jobs)]
  ELSE [jobs |-> [jobs EXCEPT ![key] = Len(tasks) + 1],
        tasks |-> Append(StopTask(tasks, key, jobs), [key |-> key, stopped |-> FALSE])]

\* the tasks of a key that cron still fires
LiveTasks(key) ==
  { j \in 1..Len(cronTasks) : cronTasks[j].key = key /\ ~cronTasks[j].stopped }

\* ------------------------------------------------------------------------
\* Reddit bearer token
\* ------------------------------------------------------------------------
MaxTokenCalls == 3

NoTokenCall == [pc |-> "idle", token |-> 0]

TokenIdle ==
  /\ cachedToken = 0
  /\ tokenExpired = FALSE
  /\ tokensIssued = 0
  /\ tokenCalls = [c \in 1..MaxTokenCalls |-> NoTokenCall]

\* cachedToken && tokenExpiry && new Date() < tokenExpiry
CacheIsValid == cachedToken # 0 /\ ~tokenExpired

\* the refresh requests that were sent and not answered yet
RefreshesInFlight == { c \in 1..MaxTokenCalls : tokenCalls[c].pc = "refreshing" }

\* no save block has been entered
SubIdle(batch) ==
  [analyzedPosts |-> batch, phase |-> "idle", pos |-> 0,
   nInserted |-> 0, writeErrors |-> 0, savedCount |-> 0, duplicateCount |-> 0,
   bulkFailed |-> "none", errorLogged |-> FALSE, resubmission |-> FALSE, storeAtStart |-> {}]

PersistIdle ==
  /\ handler = "none"
  /\ subs = [k \in 1..2 |-> SubIdle(<<>>)]

\* no handler in progress, nothing configured
RunIdle ==
  /\ brand = NoBrand
  /\ store = {}
  /\ activeJobs = {}
  /\ rkind = "none"
  /\ rpc = "idle"
  /\ reqBrand = NoBrand
  /\ executions = <<>>
  /\ todo = <<>>
  /\ postsToInsert = <<>>
  /\ summary = <<>>
  /\ remoteKind = "none"
  /\ gatewayOut = <<>>
  /\ analyzedPosts = <<>>
  /\ response = NoResponse
  /\ fetchLog = {}
  /\ inserted = {}
  /\ runsStarted = 0

InitGateway ==
  /\ mode \in {"batch", "single"}
  /\ concurrency \in ConcurrencyChoices
  /\ posts \in UNION { PostSeqs(n) : n \in 0..MaxPosts }
  /\ mode = "single" => (Len(posts) = 1 /\ concurrency = 0)
  /\ gpc = "start"
  /\ i = 0
  /\ attempt = 0
  /\ results = <<>>
  /\ errors = <<>>
  /\ successful = 0
  /\ failed = 0
  /\ calls = <<>>
  /\ delays = <<>>
  /\ RunIdle
  /\ FetchIdle
  /\ PersistIdle
  /\ SupervisorIdle
  /\ SentimentIdle
  /\ SchedulerIdle
  /\ TokenIdle

\* analyzePostsSentiment up to its first await
AnalyzePostsStart ==
  /\ mode = "batch" /\ gpc = "start"
  /\ gpc' = IF Len(posts) = 0 THEN "done" ELSE "call"
  /\ UNCHANGED <<mode, posts, concurrency, i, attempt, results, errors,
                 successful, failed, calls, delays>>
  /\ UNCHANGED <<rvars, fvars, pvars, svars, mvars, cvars, tvars>>

\* one attempt of retryWithBackoff(() => callPythonService(batch)) and what
\* analyzePostsSentiment does with its outcome
BatchAttempt ==
  /\ mode = "batch" /\ gpc = "call"
  /\ LET batch == BatchAt(posts, i, concurrency)
     IN \E raw \in RawOutcomes(Len(batch)) :
          LET r == callPythonService(raw)
              decision == IF r.threw THEN RetryDecision(attempt, r.error) ELSE "return"
              out == IF decision = "return"
                     THEN ProcessBatchResults(batch, r.value)
                     ELSE FailBatch(batch, ThrownError(decision, r.error))
              next == i + batchSize(concurrency)
          IN /\ calls' = Append(calls, CallEntry(i, attempt, batch, raw))
             /\ IF decision = "retry"
                THEN /\ attempt' = attempt + 1
                     /\ delays' = Append(delays, BackoffDelay(attempt))
                     /\ UNCHANGED <<gpc, i, results, errors, successful, failed>>
                ELSE /\ results' = results \o out.results
                     /\ errors' = errors \o out.errors
                     /\ successful' = successful + out.successful
                     /\ failed' = failed + out.failed
                     /\ i' = next
                     /\ attempt' = 0
                     /\ gpc' = IF next < Len(posts) THEN "call" ELSE "done"
                     /\ UNCHANGED delays
  /\ UNCHANGED <<mode, posts, concurrency>>
  /\ UNCHANGED <<rvars, fvars, pvars, svars, mvars, cvars, tvars>>

\* analyzePostSentiment up to its first await
AnalyzePostStart ==
  /\ mode = "single" /\ gpc = "start"
  /\ IF extractText(posts[1]) = <<>>
     THEN /\ results' = <<NoTextOutcome(posts[1])>>
          /\ gpc' = "done"
     ELSE /\ gpc' = "call"
          /\ UNCHANGED results
  /\ UNCHANGED <<mode, posts, concurrency, i, attempt, errors, successful,
                 failed, calls, delays>>
  /\ UNCHANGED <<rvars, fvars, pvars, svars, mvars, cvars, tvars>>

\* one attempt of retryWithBackoff(() => callPythonService([post])) and the
\* outcome analyzePostSentiment returns
SingleAttempt ==
  /\ mode = "single" /\ gpc = "call"
  /\ \E raw \in RawOutcomes(1) :
       LET r == callPythonService(raw)
           decision == IF r.threw THEN RetryDecision(attempt, r.error) ELSE "return"
       IN /\ calls' = Append(calls, CallEntry(0, attempt, posts, raw))
          /\ IF decision = "retry"
             THEN /\ attempt' = attempt + 1
                  /\ delays' = Append(delays, BackoffDelay(attempt))
                  /\ UNCHANGED <<gpc, results>>
             ELSE /\ results' = <<IF decision = "return"
                                   THEN SingleOutcome(posts[1], r.value)
                                   ELSE ErrorOutcome(posts[1], ThrownError(decision, r.error))>>
                  /\ gpc' = "done"
                  /\ UNCHANGED <<attempt, delays>>
  /\ UNCHANGED <<mode, posts, concurrency, i, errors, successful, failed>>
  /\ UNCHANGED <<rvars, fvars, pvars, svars, mvars, cvars, tvars>>

NextGateway ==
  \/ AnalyzePostsStart
  \/ BatchAttempt
  \/ AnalyzePostStart
  \/ SingleAttempt

SpecGateway == InitGateway /\ [][NextGateway]_vars

\* ------------------------------------------------------------------------
\* Orchestrator: resolving executions
\* ------------------------------------------------------------------------
MaxRunPosts == 2
MaxRuns == 1

SUPPORTED_REALTIME_PLATFORMS ==
  {"youtube", "twitter", "reddit", "google", "instagram", "facebook"}

IsSupported(platform) == platform \in SUPPORTED_REALTIME_PLATFORMS

normalizeGroupStatusOnly(group, b) ==
  [id |-> group._id,
   name |-> group.groupName,
   keywords |-> group.keywords,
   platforms |-> SelectSeq(IF Len(group.platforms) > 0 THEN group.platforms ELSE b.platforms,
                           IsSupported),
   paused |-> group.status = "paused"]

normalizeGroup(group, b) ==
  [id |-> group._id,
   name |-> group.groupName,
   keywords |-> group.keywords,
   platforms |-> SelectSeq(IF Len(group.platforms) > 0 THEN group.platforms ELSE b.platforms,
                           IsSupported),
   paused |-> (group.status = "paused" \/ group.paused = TRUE)]

Executable(g) == ~g.paused /\ Len(g.keywords) > 0 /\ Len(g.platforms) > 0

HasWork(g) == Len(g.keywords) > 0 /\ Len(g.platforms) > 0

BrandDefault(b) ==
  IF Len(b.keywords) > 0 /\ Len(SelectSeq(b.platforms, IsSupported)) > 0
  THEN << [id |-> "brand-default", name |-> b.brandName, keywords |-> b.keywords,
           platforms |-> SelectSeq(b.platforms, IsSupported), paused |-> FALSE] >>
  ELSE <<>>

deriveGroupExecutionsKeepsPaused(b) ==
  IF Len(b.keywordGroups) > 0
  THEN SelectSeq([k \in 1..Len(b.keywordGroups) |-> normalizeGroup(b.keywordGroups[k], b)],
                 HasWork)
  ELSE BrandDefault(b)

deriveGroupExecutions(b) ==
  IF Len(b.keywordGroups) > 0
  THEN SelectSeq([k \in 1..Len(b.keywordGroups) |-> normalizeGroup(b.keywordGroups[k], b)],
                 Executable)
  ELSE BrandDefault(b)

\* the guard of runKeywordGroupSearch
GroupIsPaused(group) == group.status = "paused" \/ group.paused = TRUE

\* the loop iterations of one group, platform by platform, keyword by keyword;
\* groupId / groupName are the values the docs get tagged with
RECURSIVE KeywordLoop(_, _, _, _, _)
KeywordLoop(key, groupId, groupName, platform, keywords) ==
  IF keywords = <<>> THEN <<>>
  ELSE << [group |-> key, groupId |-> groupId, groupName |-> groupName,
           platform |-> platform, keyword |-> Head(keywords)] >>
       \o KeywordLoop(key, groupId, groupName, platform, Tail(keywords))

RECURSIVE PlatformLoop(_, _, _, _, _)
PlatformLoop(key, groupId, groupName, platforms, keywords) ==
  IF platforms = <<>> THEN <<>>
  ELSE (IF IsSupported(Head(platforms))
        THEN KeywordLoop(key, groupId, groupName, Head(platforms), keywords)
        ELSE <<>>)
       \o PlatformLoop(key, groupId, groupName, Tail(platforms), keywords)

\* runSearch tags with group._id and group.groupName, which the normalized
\* group (id, name) does not have
RECURSIVE GroupLoop(_)
GroupLoop(groups) ==
  IF groups = <<>> THEN <<>>
  ELSE PlatformLoop(Head(groups).id, undefined, undefined,
                    Head(groups).platforms, Head(groups).keywords)
       \o GroupLoop(Tail(groups))

ZeroSummary == [p \in SUPPORTED_REALTIME_PLATFORMS |-> 0]

\* ------------------------------------------------------------------------
\* Orchestrator: inputs
\* ------------------------------------------------------------------------
GroupOne(st, pa) ==
  [_id |-> "g1", groupName |-> "G1", keywords |-> <<"k1", "k2">>,
   platforms |-> <<"youtube", "quora">>, status |-> st, paused |-> pa]

GroupTwo(st, pa) ==
  [_id |-> "g2", groupName |-> "G2", keywords |-> <<"k1">>,
   platforms |-> <<"instagram", "facebook">>, status |-> st, paused |-> pa]

Statuses == {"running", "paused"}

BrandChoices ==
  { [brandName |-> "Acme", keywords |-> <<"k1">>, platforms |-> <<"instagram", "youtube">>,
     keywordGroups |-> gs] :
      gs \in { <<>> }
          \cup { <<GroupOne(st, pa)>> : st \in Statuses, pa \in BOOLEAN }
          \cup { <<GroupOne(st, pa), GroupTwo(st2, pa2)>> :
                   st \in Statuses, pa \in BOOLEAN, st2 \in Statuses, pa2 \in BOOLEAN } }

\* what a Fetcher hands back: normalized items, or it throws
ItemA == [sourceUrl |-> "u1", text |-> <<"a", "b", "c">>, description |-> <<>>, title |-> <<>>]
ItemB == [sourceUrl |-> "u2", text |-> <<" ", " ">>, description |-> <<>>, title |-> <<>>]

FetchOutcomes ==
  { [threw |-> TRUE, items |-> <<>>] }
  \cup { [threw |-> FALSE, items |-> it] : it \in { <<>>, <<ItemA>>, <<ItemA, ItemB>> } }

\* the adapters of youtube, twitter, reddit and google catch every failure
\* of their HTTP calls and have nothing else that throws; fetchInstagramSearch
\* reads MetaAccount outside any try and (in one of its versions) rethrows
\* the failure of its HTTP calls
ThrowingPlatforms == {"instagram"}

FetchOutcomesOf(platform) ==
  { o \in FetchOutcomes : o.threw => platform \in ThrowingPlatforms }

\* a document an earlier group run stored
PriorDoc ==
  [id |-> undefined, sourceUrl |-> "u1", text |-> <<"a", "b", "c">>,
   description |-> <<>>, title |-> <<>>,
   brandName |-> "Acme", keyword |-> "k1", platform |-> "youtube",
   groupId |-> "g1", groupName |-> "G1",
   sentiment |-> "positive", sentimentScore |-> "0.85", sentimentSource |-> "llm"]

StoreChoices == { {}, {PriorDoc} }

\* fetchFacebookPublicPosts takes no argument and hands back a count, not
\* items: it reads the active pages and the brands itself and creates a
\* SocialPost for every page post that names a keyword of a running group
\* listing facebook; a duplicate key and every other failure are swallowed
FacebookCounts == {0, 1}

FacebookDoc(g) ==
  [id |-> undefined, sourceUrl |-> "fb1", text |-> <<"a", "b", "c">>,
   description |-> <<>>, title |-> <<>>,
   brandName |-> undefined, keyword |-> g.groupName, platform |-> "facebook",
   groupId |-> "page1", groupName |-> "Page1",
   sentiment |-> undefined, sentimentScore |-> undefined, sentimentSource |-> undefined]

\* the groups of the stored brand the facebook adapter writes for
FacebookGroups(b) ==
  { b.keywordGroups[k] : k \in { j \in 1..Len(b.keywordGroups) :
      /\ ~b.keywordGroups[j].paused
      /\ b.keywordGroups[j].status = "running"
      /\ \E n \in 1..Len(b.keywordGroups[j].platforms) :
           b.keywordGroups[j].platforms[n] = "facebook" } }

\* the store after the adapter created what it matched
fetchFacebookPublicPosts(b, st, n) ==
  IF n = 0 THEN st
  ELSE st \cup { d \in { FacebookDoc(g) : g \in FacebookGroups(b) } :
                   ~\E t \in st : <<t.sourceUrl, t.platform>> = <<d.sourceUrl, d.platform>> }

\* summary[platform] += fetchedData.length with a number for fetchedData
NaN == -1

\* docs = fetchedData.map(...)
MkDoc(item, it) ==
  [id |-> undefined, sourceUrl |-> item.sourceUrl, text |-> item.text,
   description |-> item.description, title |-> item.title,
   brandName |-> reqBrand.brandName, keyword |-> it.keyword, platform |-> it.platform,
   groupId |-> it.groupId, groupName |-> it.groupName,
   sentiment |-> undefined, sentimentScore |-> undefined, sentimentSource |-> undefined]

\* ------------------------------------------------------------------------
\* Orchestrator: annotation before saving
\* ------------------------------------------------------------------------
RunConcurrency == 50

\* analyzePostsSentiment for an array that fits one sub-batch; the remote
\* answers every attempt of the call the same way
AnalyzeSubBatch(batch, raw) ==
  LET r == callPythonService(raw)
  IN IF ~r.threw
     THEN ProcessBatchResults(batch, r.value)
     ELSE FailBatch(batch, ThrownError(IF isNetworkError(r.error) THEN "exhausted" ELSE "throw",
                                       r.error))

MergeAnalyzedDropsFailed(ps, analyzed) ==
  LET Labelled(a) == Truthy(a.sentiment)
      kept == SelectSeq(analyzed, Labelled)
  IN [k \in 1..Len(kept) |->
        [kept[k].post EXCEPT !.sentiment = kept[k].sentiment,
                             !.sentimentScore = OrVal(kept[k].sentimentScore, null),
                             !.sentimentSource = OrVal(kept[k].sentimentSource, null)]]

\* the index-based merge of analyzePostsBeforeSave
MergeAnalyzed(ps, analyzed) ==
  [k \in 1..Len(ps) |->
     IF k <= Len(analyzed) /\ Truthy(analyzed[k].sentiment)
     THEN [ps[k] EXCEPT !.sentiment = analyzed[k].sentiment,
                        !.sentimentScore = OrVal(analyzed[k].sentimentScore, null),
                        !.sentimentSource = OrVal(analyzed[k].sentimentSource, null)]
     ELSE ps[k]]

\* ------------------------------------------------------------------------
\* Persistence
\* ------------------------------------------------------------------------
PLATFORM_ENUM == {"twitter", "youtube", "reddit", "google", "facebook", "instagram"}

\* the unique index { sourceUrl: 1, platform: 1 }
Key(d) == <<d.sourceUrl, d.platform>>

\* schema validation of SocialPost
Valid(d) ==
  /\ Truthy(d.groupId)
  /\ Truthy(d.groupName)
  /\ Truthy(d.keyword)
  /\ d.platform \in PLATFORM_ENUM
  /\ (Truthy(d.sentiment) => d.sentiment \in SENTIMENT_LABELS)

\* inserting docs one after the other without stopping at a failing one
RECURSIVE InsertEach(_, _)
InsertEach(docs, acc) ==
  IF docs = <<>> THEN acc
  ELSE LET d == Head(docs)
       IN InsertEach(Tail(docs),
            IF ~Valid(d)
            THEN [acc EXCEPT !.invalid = @ + 1]
            ELSE IF \E t \in acc.store : Key(t) = Key(d)
                 THEN [acc EXCEPT !.dups = @ + 1]
                 ELSE [acc EXCEPT !.store = @ \cup {d}, !.nInserted = @ + 1])

InsertAll(docs, st) == InsertEach(docs, [store |-> st, nInserted |-> 0, dups |-> 0, invalid |-> 0])

\* the save block of runKeywordGroupSearch
SaveGroupRun(docs, st, outright) ==
  LET b == InsertAll(docs, st)
  IN IF docs = <<>> THEN [store |-> st, saved |-> 0, duplicates |-> 0]
     ELSE IF outright THEN [store |-> b.store, saved |-> b.nInserted, duplicates |-> b.dups]
     ELSE IF b.dups = 0
          THEN [store |-> b.store,
                saved |-> IF b.nInserted > 0 THEN b.nInserted ELSE Len(docs),
                duplicates |-> 0]
          ELSE [store |-> b.store, saved |-> b.nInserted, duplicates |-> b.dups]

\* the save block of runSearch
SaveRunSearch(docs, st, outright) ==
  LET b == InsertAll(docs, st)
      again == InsertAll(docs, b.store)
  IN IF docs = <<>> THEN [store |-> st, saved |-> 0, duplicates |-> 0]
     ELSE IF outright THEN [store |-> b.store, saved |-> b.nInserted, duplicates |-> 0]
     ELSE IF b.dups = 0
          THEN [store |-> b.store, saved |-> Len(docs), duplicates |-> 0]
          ELSE [store |-> again.store, saved |-> again.nInserted, duplicates |-> 0]

\* ------------------------------------------------------------------------
\* Persistence, one document at a time
\* ------------------------------------------------------------------------
MaxBatch == 2

\* documents a group run hands over: the stored one again, the same post
\* fetched for another keyword, one the service labelled outside the enum,
\* one without sourceUrl, one that was not labelled
GroupDocs ==
  { PriorDoc,
    [PriorDoc EXCEPT !.keyword = "k2"],
    [PriorDoc EXCEPT !.sourceUrl = "u2", !.sentiment = "mixed", !.sentimentScore = "0.5"],
    [PriorDoc EXCEPT !.sourceUrl = undefined, !.sentiment = undefined,
                     !.sentimentScore = undefined, !.sentimentSource = undefined],
    [PriorDoc EXCEPT !.sourceUrl = "u3", !.sentiment = undefined,
                     !.sentimentScore = undefined, !.sentimentSource = undefined] }

\* documents runSearch and runSearchForBrand hand over: without group tags
UntaggedDocs ==
  { [d EXCEPT !.groupId = undefined, !.groupName = undefined] :
      d \in { PriorDoc, [PriorDoc EXCEPT !.sourceUrl = "u2"] } }

DocsOf(h) == IF h = "group" THEN GroupDocs ELSE UntaggedDocs

BatchesOf(h) == UNION { [1..n -> DocsOf(h)] : n \in 0..MaxBatch }

\* what another run of the same handler may hand over at the same time
OtherBatches(h) ==
  IF h = "group"
  THEN { <<[PriorDoc EXCEPT !.keyword = "k2"],
           [PriorDoc EXCEPT !.sourceUrl = "u3", !.sentiment = undefined,
                            !.sentimentScore = undefined, !.sentimentSource = undefined]>> }
  ELSE { <<[PriorDoc EXCEPT !.groupId = undefined, !.groupName = undefined]>> }

\* the unique index answers E11000 for this document
IndexRejectsNever(d, st) == FALSE

IndexRejects(d, st) == \E t \in st : Key(t) = Key(d)

\* what is in the collection after the server handled one document
StoreAfter(d, st) == IF Valid(d) /\ ~IndexRejects(d, st) THEN st \cup {d} ELSE st

\* insertMany has gone through all documents: the success path, or the catch
\* every handler treats the error the way runSearch's catch does
BulkEndLogsAndRetries(h, s) ==
  IF s.writeErrors = 0
  THEN [s EXCEPT !.phase = "done", !.savedCount = Len(s.analyzedPosts)]
  ELSE [s EXCEPT !.phase = "each", !.pos = 0, !.bulkFailed = "duplicate",
                 !.errorLogged = TRUE]

BulkEnd(h, s) ==
  IF s.writeErrors = 0
  THEN [s EXCEPT !.phase = "done",
                 !.savedCount = IF h = "group" /\ s.nInserted > 0 THEN s.nInserted
                                ELSE Len(s.analyzedPosts)]
  ELSE IF h = "group"
       THEN [s EXCEPT !.phase = "done", !.bulkFailed = "duplicate",
                      !.savedCount = s.nInserted, !.duplicateCount = s.writeErrors]
       ELSE [s EXCEPT !.phase = "each", !.pos = 0, !.bulkFailed = "duplicate",
                      !.errorLogged = TRUE]

\* insertMany(ordered: false) handles the next document: invalid ones are
\* left out, the index rejects duplicates, the others are inserted
BulkStep(h, s, st) ==
  LET d == s.analyzedPosts[s.pos + 1]
      s1 == IF ~Valid(d) THEN [s EXCEPT !.pos = @ + 1]
            ELSE IF IndexRejects(d, st) THEN [s EXCEPT !.pos = @ + 1, !.writeErrors = @ + 1]
            ELSE [s EXCEPT !.pos = @ + 1, !.nInserted = @ + 1]
  IN IF s1.pos = Len(s.analyzedPosts) THEN BulkEnd(h, s1) ELSE s1

\* the fallback loop counts a rejected duplicate as saved as well
EachStepCountsDuplicateAsSaved(h, s, st) ==
  LET d == s.analyzedPosts[s.pos + 1]
      s1 == IF ~Valid(d) THEN [s EXCEPT !.pos = @ + 1]
            ELSE IF IndexRejects(d, st)
                 THEN [s EXCEPT !.pos = @ + 1, !.savedCount = @ + 1,
                                !.duplicateCount = @ + 1]
            ELSE [s EXCEPT !.pos = @ + 1, !.savedCount = @ + 1]
  IN IF s1.pos = Len(s.analyzedPosts) THEN [s1 EXCEPT !.phase = "done"] ELSE s1

\* one iteration of the fallback loop: SocialPost.create(post) and its catch
EachStep(h, s, st) ==
  LET d == s.analyzedPosts[s.pos + 1]
      s1 == IF ~Valid(d) THEN [s EXCEPT !.pos = @ + 1]
            ELSE IF IndexRejects(d, st)
                 THEN [s EXCEPT !.pos = @ + 1,
                                !.duplicateCount = IF h = "group" THEN @ + 1 ELSE @]
            ELSE [s EXCEPT !.pos = @ + 1, !.savedCount = @ + 1]
  IN IF s1.pos = Len(s.analyzedPosts) THEN [s1 EXCEPT !.phase = "done"] ELSE s1

\* ------------------------------------------------------------------------
\* Orchestrator actions
\* ------------------------------------------------------------------------
GatewayIdle ==
  /\ mode = "batch"
  /\ posts = <<>>
  /\ concurrency = RunConcurrency
  /\ gpc = "done"
  /\ i = 0
  /\ attempt = 0
  /\ results = <<>>
  /\ errors = <<>>
  /\ successful = 0
  /\ failed = 0
  /\ calls = <<>>
  /\ delays = <<>>

RunningGroupIds(b) ==
  { b.keywordGroups[k]._id : k \in { n \in 1..Len(b.keywordGroups) :
                                        ~GroupIsPaused(b.keywordGroups[n]) } }

\* the server after startup: scheduleAllGroups has run
InitRun ==
  /\ GatewayIdle
  /\ FetchIdle
  /\ PersistIdle
  /\ SupervisorIdle
  /\ SentimentIdle
  /\ SchedulerIdle
  /\ TokenIdle
  /\ brand \in BrandChoices
  /\ store \in StoreChoices
  /\ activeJobs = RunningGroupIds(brand)
  /\ rkind = "none"
  /\ rpc = "idle"
  /\ reqBrand = NoBrand
  /\ executions = <<>>
  /\ todo = <<>>
  /\ postsToInsert = <<>>
  /\ summary = ZeroSummary
  /\ remoteKind = "none"
  /\ gatewayOut = <<>>
  /\ analyzedPosts = <<>>
  /\ response = NoResponse
  /\ fetchLog = {}
  /\ inserted = {}
  /\ runsStarted = 0

\* toggleKeywordGroupStatus, with the scheduleKeywordGroup call it ends with.
\* The run handlers read the Brand document in their first step only, so a
\* toggle during the later phases commutes with them and is left to the
\* idle and fetch phases.
ToggleKeywordGroupStatus ==
  /\ rpc \in {"idle", "fetch"}
  /\ \E k \in 1..Len(brand.keywordGroups), action \in {"start", "pause"} :
       LET group == [brand.keywordGroups[k] EXCEPT
                       !.status = IF action = "start" THEN "running" ELSE "paused",
                       !.paused = (action = "pause")]
       IN /\ brand' = [brand EXCEPT !.keywordGroups[k] = group]
          /\ activeJobs' = IF GroupIsPaused(group)
                           THEN activeJobs \ {group._id}
                           ELSE activeJobs \cup {group._id}
  /\ UNCHANGED <<store, rkind, rpc, reqBrand, executions, todo,
                 postsToInsert, summary, remoteKind, gatewayOut,
                 analyzedPosts, response, fetchLog, inserted, runsStarted>>
  /\ UNCHANGED <<gvars, fvars, pvars, svars, mvars, cvars, tvars>>

BadRequest == [NoResponse EXCEPT !.status = 400]

\* runSearch up to its fetch loop
RunSearchStart ==
  /\ rpc = "idle" /\ runsStarted < MaxRuns
  /\ runsStarted' = runsStarted + 1
  /\ rkind' = "runSearch"
  /\ reqBrand' = brand
  /\ executions' = deriveGroupExecutions(brand)
  /\ IF executions' = <<>>
     THEN /\ response' = BadRequest
          /\ rpc' = "done"
          /\ todo' = <<>>
     ELSE /\ todo' = GroupLoop(executions')
          /\ rpc' = "fetch"
          /\ UNCHANGED response
  /\ UNCHANGED <<brand, store, activeJobs, postsToInsert, summary, remoteKind,
                 gatewayOut, analyzedPosts, fetchLog, inserted>>
  /\ UNCHANGED <<gvars, fvars, pvars, svars, mvars, cvars, tvars>>

\* runKeywordGroupSearch for the k-th group, up to its fetch loop
RunKeywordGroupSearchStart(k) ==
  /\ rpc = "idle" /\ runsStarted < MaxRuns
  /\ LET group == brand.keywordGroups[k]
         loop == PlatformLoop(group._id, group._id, group.groupName,
                              group.platforms, group.keywords)
     IN IF GroupIsPaused(group)
        THEN /\ response' = BadRequest
             /\ rpc' = "done"
             /\ todo' = <<>>
        ELSE /\ todo' = loop
             /\ rpc' = IF loop = <<>> THEN "analyze" ELSE "fetch"
             /\ UNCHANGED response
  /\ runsStarted' = runsStarted + 1
  /\ rkind' = "group"
  /\ reqBrand' = brand
  /\ UNCHANGED <<brand, store, activeJobs, executions, postsToInsert, summary,
                 remoteKind, gatewayOut, analyzedPosts, fetchLog, inserted>>
  /\ UNCHANGED <<gvars, fvars, pvars, svars, mvars, cvars, tvars>>

\* what the outer catch of a handler answers
ServerError == [NoResponse EXCEPT !.status = 500]

\* runSearchForBrand up to its fetch loop: the brand's own keywords and
\* platforms, whatever its keyword groups are; the docs get no group tag
RunSearchForBrandStart ==
  /\ rpc = "idle" /\ runsStarted < MaxRuns
  /\ runsStarted' = runsStarted + 1
  /\ rkind' = "brand"
  /\ reqBrand' = brand
  /\ IF Len(brand.keywords) = 0 \/ Len(brand.platforms) = 0
     THEN /\ response' = BadRequest
          /\ rpc' = "done"
          /\ todo' = <<>>
     ELSE /\ todo' = PlatformLoop("brand", undefined, undefined,
                                  brand.platforms, brand.keywords)
          /\ rpc' = IF todo' = <<>> THEN "analyze" ELSE "fetch"
          /\ UNCHANGED response
  /\ UNCHANGED <<brand, store, activeJobs, executions, postsToInsert, summary,
                 remoteKind, gatewayOut, analyzedPosts, fetchLog, inserted>>
  /\ UNCHANGED <<gvars, fvars, pvars, svars, mvars, cvars, tvars>>

\* POST /api/search/group/run sent by a user
ManualGroupRun == \E k \in 1..Len(brand.keywordGroups) : RunKeywordGroupSearchStart(k)

\* the same request sent by the cron job scheduleKeywordGroup registered
CronTick ==
  \E k \in 1..Len(brand.keywordGroups) :
    /\ brand.keywordGroups[k]._id \in activeJobs
    /\ RunKeywordGroupSearchStart(k)

\* was the group paused in the database when the request was served
PausedAtRequest(key) ==
  \E k \in 1..Len(reqBrand.keywordGroups) :
    /\ reqBrand.keywordGroups[k]._id = key
    /\ (reqBrand.keywordGroups[k].status = "paused" \/ reqBrand.keywordGroups[k].paused)

\* one iteration of the keyword loop: the Fetcher call and the tagging.
\* runSearch and runKeywordGroupSearch catch a throwing Fetcher and go on
\* with the next keyword; runSearchForBrand has no such catch, the throw
\* reaches the handler's outer catch.
Fetch ==
  /\ rpc = "fetch"
  /\ LET it == Head(todo)
     IN IF it.platform = "facebook"
        THEN \E n \in FacebookCounts :
               /\ store' = fetchFacebookPublicPosts(brand, store, n)
               /\ fetchLog' = fetchLog \cup
                    { [group |-> it.group, platform |-> it.platform, keyword |-> it.keyword,
                       pausedAtRequest |-> PausedAtRequest(it.group), threw |-> FALSE] }
               /\ summary' = [summary EXCEPT ![it.platform] = NaN]
               /\ todo' = Tail(todo)
               /\ rpc' = IF todo' = <<>> THEN "analyze" ELSE "fetch"
               /\ UNCHANGED <<postsToInsert, response>>
        ELSE \E o \in FetchOutcomesOf(it.platform) :
               /\ Len(postsToInsert) + Len(o.items) <= MaxRunPosts
               /\ fetchLog' = fetchLog \cup
                    { [group |-> it.group, platform |-> it.platform, keyword |-> it.keyword,
                       pausedAtRequest |-> PausedAtRequest(it.group), threw |-> o.threw] }
               /\ IF o.threw
                  THEN UNCHANGED <<summary, postsToInsert>>
                  ELSE /\ summary' = [summary EXCEPT ![it.platform] = @ + Len(o.items)]
                       /\ postsToInsert' = postsToInsert \o
                            [n \in 1..Len(o.items) |-> MkDoc(o.items[n], it)]
               /\ IF o.threw /\ rkind = "brand"
                  THEN /\ response' = ServerError
                       /\ rpc' = "done"
                       /\ UNCHANGED todo
                  ELSE /\ todo' = Tail(todo)
                       /\ rpc' = IF todo' = <<>> THEN "analyze" ELSE "fetch"
                       /\ UNCHANGED response
               /\ UNCHANGED store
  /\ UNCHANGED <<brand, activeJobs, rkind, reqBrand, executions,
                 remoteKind, gatewayOut, analyzedPosts, inserted, runsStarted>>
  /\ UNCHANGED <<gvars, fvars, pvars, svars, mvars, cvars, tvars>>

\* analyzePostsBeforeSave on the full candidate list
Analyze ==
  /\ rpc = "analyze"
  /\ IF postsToInsert = <<>>
     THEN /\ gatewayOut' = <<>>
          /\ analyzedPosts' = <<>>
          /\ UNCHANGED remoteKind
     ELSE \E raw \in RawOutcomes(Len(postsToInsert)) :
            /\ remoteKind' = raw.kind
            /\ gatewayOut' = AnalyzeSubBatch(postsToInsert, raw).results
            /\ analyzedPosts' = MergeAnalyzed(postsToInsert, gatewayOut')
  /\ rpc' = "save"
  /\ UNCHANGED <<brand, store, activeJobs, rkind, reqBrand, executions, todo,
                 postsToInsert, summary, response, fetchLog, inserted, runsStarted>>
  /\ UNCHANGED <<gvars, fvars, pvars, svars, mvars, cvars, tvars>>

CountLabelled(ps) == Cardinality({ k \in 1..Len(ps) : Truthy(ps[k].sentiment) })

\* the save block and the JSON answer
Save ==
  /\ rpc = "save"
  /\ \E outright \in BOOLEAN :
       LET out == IF rkind = "group"
                  THEN SaveGroupRun(analyzedPosts, store, outright)
                  ELSE SaveRunSearch(analyzedPosts, store, outright)
       IN /\ store' = out.store
          /\ inserted' = out.store \ store
          /\ response' = [status |-> 200, success |-> TRUE,
                          fetched |-> Len(postsToInsert),
                          analyzed |-> CountLabelled(analyzedPosts),
                          failed |-> Len(postsToInsert) - CountLabelled(analyzedPosts),
                          saved |-> out.saved,
                          duplicates |-> out.duplicates]
  /\ rpc' = "done"
  /\ UNCHANGED <<brand, activeJobs, rkind, reqBrand, executions, todo,
                 postsToInsert, summary, remoteKind, gatewayOut, analyzedPosts,
                 fetchLog, runsStarted>>
  /\ UNCHANGED <<gvars, fvars, pvars, svars, mvars, cvars, tvars>>

\* the answer is sent; the server is ready for the next request
Finish ==
  /\ rpc = "done"
  /\ rpc' = "idle"
  /\ rkind' = "none"
  /\ reqBrand' = NoBrand
  /\ executions' = <<>>
  /\ todo' = <<>>
  /\ postsToInsert' = <<>>
  /\ summary' = ZeroSummary
  /\ remoteKind' = "none"
  /\ gatewayOut' = <<>>
  /\ analyzedPosts' = <<>>
  /\ response' = NoResponse
  /\ fetchLog' = {}
  /\ inserted' = {}
  /\ UNCHANGED <<brand, store, activeJobs, runsStarted>>
  /\ UNCHANGED <<gvars, fvars, pvars, svars, mvars, cvars, tvars>>

NextRun ==
  \/ ToggleKeywordGroupStatus
  \/ RunSearchStart
  \/ RunSearchForBrandStart
  \/ ManualGroupRun
  \/ CronTick
  \/ Fetch
  \/ Analyze
  \/ Save
  \/ Finish

SpecRun == InitRun /\ [][NextRun]_vars

\* the run has not yet got its answer from analyzePostsBeforeSave
BeforeGatewayReturned == rpc \in {"fetch", "analyze"}

\* the Gateway call of a run comes after the last Fetcher call of the run
GatewayAfterFetchers == rpc = "analyze" => todo = <<>>

\* the save block is entered from the Gateway call and from nowhere else
SaveEnteredFromGateway == (rpc' = "save" /\ rpc # "save") => rpc = "analyze"

\* C27: in every run the Gateway is called once, after every Fetcher call
\* of the run has completed, and nothing is written to the store before
\* that call has returned.
C27_NoWriteBeforeGateway ==
  /\ []GatewayAfterFetchers
  /\ [][SaveEnteredFromGateway]_vars
  /\ [][BeforeGatewayReturned => store' = store]_vars

\* ------------------------------------------------------------------------
\* Persistence actions
\* ------------------------------------------------------------------------
\* two runs of one handler hold their analyzedPosts; the second holds the
\* same batch as the first or a batch of its own
InitPersist ==
  /\ handler \in {"group", "runSearch"}
  /\ \E b1 \in BatchesOf(handler) : \E b2 \in {b1} \cup OtherBatches(handler) :
       subs = [k \in 1..2 |-> SubIdle(IF k = 1 THEN b1 ELSE b2)]
  /\ store \in StoreChoices
  /\ brand = NoBrand
  /\ activeJobs = {}
  /\ HandlerIdle
  /\ GatewayIdle
  /\ FetchIdle
  /\ SupervisorIdle
  /\ SentimentIdle
  /\ SchedulerIdle
  /\ TokenIdle

\* the save block without its fallback loop
EnterSaveNoFallback(k) ==
  /\ subs[k].phase = "idle"
  /\ \E outright \in BOOLEAN :
       LET s == [subs[k] EXCEPT !.storeAtStart = store,
                                !.resubmission = (subs[3 - k].phase = "done"
                                   /\ subs[3 - k].analyzedPosts = subs[k].analyzedPosts)]
       IN subs' = [subs EXCEPT ![k] =
            IF s.analyzedPosts = <<>> THEN [s EXCEPT !.phase = "done"]
            ELSE IF outright
                 THEN [s EXCEPT !.phase = "done", !.bulkFailed = "other", !.errorLogged = TRUE]
                 ELSE [s EXCEPT !.phase = "bulk"]]
  /\ UNCHANGED <<handler, store>>
  /\ UNCHANGED <<gvars, hvars, fvars, svars, mvars, cvars, tvars>>

\* run k enters its save block and awaits insertMany; the bulk insert may
\* fail as a whole with an error that is no duplicate-key error
EnterSave(k) ==
  /\ subs[k].phase = "idle"
  /\ \E outright \in BOOLEAN :
       LET s == [subs[k] EXCEPT !.storeAtStart = store,
                                !.resubmission = (subs[3 - k].phase = "done"
                                   /\ subs[3 - k].analyzedPosts = subs[k].analyzedPosts)]
       IN subs' = [subs EXCEPT ![k] =
            IF s.analyzedPosts = <<>> THEN [s EXCEPT !.phase = "done"]
            ELSE IF outright
                 THEN [s EXCEPT !.phase = "each", !.bulkFailed = "other", !.errorLogged = TRUE]
                 ELSE [s EXCEPT !.phase = "bulk"]]
  /\ UNCHANGED <<handler, store>>
  /\ UNCHANGED <<gvars, hvars, fvars, svars, mvars, cvars, tvars>>

\* the server handles the next document of run k's bulk insert
BulkInsertOne(k) ==
  /\ subs[k].phase = "bulk"
  /\ store' = StoreAfter(subs[k].analyzedPosts[subs[k].pos + 1], store)
  /\ subs' = [subs EXCEPT ![k] = BulkStep(handler, subs[k], store)]
  /\ UNCHANGED handler
  /\ UNCHANGED <<gvars, hvars, fvars, svars, mvars, cvars, tvars>>

\* run k's fallback loop creates its next document
CreateOne(k) ==
  /\ subs[k].phase = "each"
  /\ store' = StoreAfter(subs[k].analyzedPosts[subs[k].pos + 1], store)
  /\ subs' = [subs EXCEPT ![k] = EachStep(handler, subs[k], store)]
  /\ UNCHANGED handler
  /\ UNCHANGED <<gvars, hvars, fvars, svars, mvars, cvars, tvars>>

NextPersist ==
  \/ \E k \in 1..2 : EnterSave(k)
  \/ \E k \in 1..2 : BulkInsertOne(k)
  \/ \E k \in 1..2 : CreateOne(k)

SpecPersist == InitPersist /\ [][NextPersist]_vars

\* ------------------------------------------------------------------------
\* Fetcher adapter actions
\* ------------------------------------------------------------------------
\* no adapter has been called yet; account: the MetaAccount (for Facebook,
\* the active pages and brands) the adapter looks up exists or not
InitFetch ==
  /\ adapter \in ADAPTERS
  /\ fenv \in [tokenCached : BOOLEAN, account : {"none", "ok"}]
  /\ fstage = "idle"
  /\ fcalls = <<>>
  /\ fresult = NoResult
  /\ GatewayIdle
  /\ RunIdle
  /\ PersistIdle
  /\ SupervisorIdle
  /\ SentimentIdle
  /\ SchedulerIdle
  /\ TokenIdle

\* the Orchestrator calls the adapter
CallAdapter ==
  /\ fstage = "idle"
  /\ LET s == AdapterStart(adapter, fenv)
     IN /\ fstage' = s.stage
        /\ fresult' = s.result
  /\ UNCHANGED <<adapter, fenv, fcalls>>
  /\ UNCHANGED <<gvars, rvars, pvars, svars, mvars, cvars, tvars>>

\* upstream answers the HTTP request the adapter is awaiting
HttpAnswer ==
  /\ fstage \notin {"idle", "done"}
  /\ \E o \in HttpOutcomes :
       LET s == AdapterStep(adapter, fstage, o)
       IN /\ fcalls' = Append(fcalls, [stage |-> fstage, answer |-> o])
          /\ fstage' = s.stage
          /\ fresult' = s.result
  /\ UNCHANGED <<adapter, fenv>>
  /\ UNCHANGED <<gvars, rvars, pvars, svars, mvars, cvars, tvars>>

NextFetch ==
  \/ CallAdapter
  \/ HttpAnswer

SpecFetch == InitFetch /\ [][NextFetch]_vars

\* ------------------------------------------------------------------------
\* Supervisor actions
\* ------------------------------------------------------------------------
InitSupervisor ==
  /\ node = "init"
  /\ external \in BOOLEAN
  /\ isStarting = FALSE
  /\ process = 0
  /\ restartCount = 0
  /\ children = [p \in Pids |-> "none"]
  /\ signalled = {}
  /\ timers = <<>>
  /\ startCalls = <<>>
  /\ GatewayIdle
  /\ RunIdle
  /\ FetchIdle
  /\ PersistIdle
  /\ SentimentIdle
  /\ SchedulerIdle
  /\ TokenIdle

\* the next child to be spawned
NextPid == Cardinality({ p \in Pids : children[p] # "none" }) + 1

\* the start() call that spawned child p
CallOf(p) == CHOOSE c \in 1..Len(startCalls) : startCalls[c].pid = p

\* startServer: await pythonServiceManager.start()
ServerStartup ==
  /\ node = "init"
  /\ node' = "up"
  /\ startCalls' = Append(startCalls, StartEntered("startup"))
  /\ isStarting' = TRUE
  /\ UNCHANGED <<external, process, restartCount, children, signalled, timers>>
  /\ UNCHANGED <<gvars, rvars, fvars, pvars, mvars, cvars, tvars>>

\* timers and callbacks run while the server process lives: every stop()
\* of server.js is followed at once by process.exit()
EventLoopRunsAfterExit == node \in {"up", "exited"}

EventLoopRuns == node = "up"

\* a restart timer fires: this.start()
RestartTimerFires ==
  /\ EventLoopRuns
  /\ timers # <<>>
  /\ Len(startCalls) < MaxStartCalls
  /\ timers' = Tail(timers)
  /\ startCalls' = Append(startCalls, StartEntered("timer"))
  /\ isStarting' = TRUE
  /\ UNCHANGED <<node, external, process, restartCount, children, signalled>>
  /\ UNCHANGED <<gvars, rvars, fvars, pvars, mvars, cvars, tvars>>

\* start() after its health check: return when healthy, spawn otherwise
HealthAnswer(c) ==
  /\ EventLoopRuns
  /\ startCalls[c].pc = "health"
  /\ \E h \in HealthAnswers, spawned \in BOOLEAN :
       IF h
       THEN /\ isStarting' = FALSE
            /\ startCalls' = [startCalls EXCEPT ![c].pc = "settled",
                                                 ![c].outcome = "resolved",
                                                 ![c].readyBy = "probe"]
            /\ UNCHANGED <<process, children>>
       ELSE /\ process' = NextPid
            /\ children' = [children EXCEPT ![NextPid] =
                               IF spawned THEN "loading" ELSE "failed"]
            /\ startCalls' = [startCalls EXCEPT ![c].pc = "pending",
                                                 ![c].pid = NextPid,
                                                 ![c].timeoutPending = TRUE]
            /\ UNCHANGED isStarting
  /\ UNCHANGED <<node, external, restartCount, signalled, timers>>
  /\ UNCHANGED <<gvars, rvars, fvars, pvars, mvars, cvars, tvars>>

\* the child prints "Uvicorn running" or "Application startup complete"
StartupOutput(p) ==
  /\ children[p] = "loading"
  /\ children' = [children EXCEPT ![p] = "ready"]
  /\ IF EventLoopRuns /\ ~startCalls[CallOf(p)].startupComplete
     THEN /\ isStarting' = FALSE
          /\ startCalls' = [startCalls EXCEPT
                               ![CallOf(p)].startupComplete = TRUE,
                               ![CallOf(p)].pc = "settled",
                               ![CallOf(p)].outcome = "resolved",
                               ![CallOf(p)].readyBy = "line"]
     ELSE UNCHANGED <<isStarting, startCalls>>
  /\ UNCHANGED <<node, external, process, restartCount, signalled, timers>>
  /\ UNCHANGED <<gvars, rvars, fvars, pvars, mvars, cvars, tvars>>

\* the child's 'exit' event
ChildExit(p, code) ==
  /\ p \in Alive
  /\ children' = [children EXCEPT ![p] = "dead"]
  /\ IF EventLoopRuns
     THEN /\ process' = 0
          /\ isStarting' = FALSE
          /\ timers' = TimersAfterExit(p, code)
          /\ restartCount' = IF code \notin {"0", "null"} /\ restartCount < maxRestarts
                              THEN restartCount + 1 ELSE restartCount
     ELSE UNCHANGED <<process, isStarting, timers, restartCount>>
  /\ UNCHANGED <<node, external, signalled, startCalls>>
  /\ UNCHANGED <<gvars, rvars, fvars, pvars, mvars, cvars, tvars>>

\* the child's 'error' event: the process could not be spawned
SpawnError(c) ==
  /\ EventLoopRuns
  /\ startCalls[c].pc = "pending"
  /\ children[startCalls[c].pid] = "failed"
  /\ isStarting' = FALSE
  /\ startCalls' = [startCalls EXCEPT ![c].pc = "settled", ![c].outcome = "rejected"]
  /\ UNCHANGED <<node, external, process, restartCount, children, signalled, timers>>
  /\ UNCHANGED <<gvars, rvars, fvars, pvars, mvars, cvars, tvars>>

\* the 60 second timer resolves whatever the probe answers
StartupTimeoutAlwaysResolves(c) ==
  /\ EventLoopRuns
  /\ startCalls[c].timeoutPending
  /\ \E h \in HealthAnswers :
       IF startCalls[c].startupComplete
       THEN /\ startCalls' = [startCalls EXCEPT ![c].timeoutPending = FALSE]
            /\ UNCHANGED isStarting
       ELSE /\ isStarting' = FALSE
            /\ startCalls' = [startCalls EXCEPT
                                 ![c].timeoutPending = FALSE,
                                 ![c].startupComplete = h,
                                 ![c].pc = "settled",
                                 ![c].readyBy = IF h THEN "probe" ELSE "none",
                                 ![c].outcome =
                                   IF startCalls[c].outcome # "none"
                                   THEN startCalls[c].outcome
                                   ELSE "resolved"]
  /\ UNCHANGED <<node, external, process, restartCount, children, signalled, timers>>
  /\ UNCHANGED <<gvars, rvars, fvars, pvars, mvars, cvars, tvars>>

\* the 60 second timer of a start() call that spawned
StartupTimeout(c) ==
  /\ EventLoopRuns
  /\ startCalls[c].timeoutPending
  /\ \E h \in HealthAnswers :
       IF startCalls[c].startupComplete
       THEN /\ startCalls' = [startCalls EXCEPT ![c].timeoutPending = FALSE]
            /\ UNCHANGED isStarting
       ELSE /\ isStarting' = FALSE
            /\ startCalls' = [startCalls EXCEPT
                                 ![c].timeoutPending = FALSE,
                                 ![c].startupComplete = h,
                                 ![c].pc = "settled",
                                 ![c].readyBy = IF h THEN "probe" ELSE "none",
                                 ![c].outcome =
                                   IF startCalls[c].outcome # "none"
                                   THEN startCalls[c].outcome
                                   ELSE IF h THEN "resolved" ELSE "rejected"]
  /\ UNCHANGED <<node, external, process, restartCount, children, signalled, timers>>
  /\ UNCHANGED <<gvars, rvars, fvars, pvars, mvars, cvars, tvars>>

\* stop()
StopKills ==
  /\ process' = 0
  /\ signalled' = IF process # 0 THEN signalled \cup {process} ELSE signalled

\* SIGINT, SIGTERM or a failed startServer: stop(), then process.exit()
Shutdown ==
  /\ node \in {"init", "up"}
  /\ StopKills
  /\ node' = "exited"
  /\ UNCHANGED <<external, isStarting, restartCount, children, timers, startCalls>>
  /\ UNCHANGED <<gvars, rvars, fvars, pvars, mvars, cvars, tvars>>

NextSupervisor ==
  \/ ServerStartup
  \/ RestartTimerFires
  \/ \E c \in 1..Len(startCalls) : HealthAnswer(c)
  \/ \E p \in Pids : StartupOutput(p)
  \/ \E p \in Pids, code \in {"0", "1", "null"} : ChildExit(p, code)
  \/ \E c \in 1..Len(startCalls) : SpawnError(c)
  \/ \E c \in 1..Len(startCalls) : StartupTimeout(c)
  \/ Shutdown

SpecSupervisor == InitSupervisor /\ [][NextSupervisor]_vars

\* the event loop runs every due timer and every answered request while the
\* server process is up
SpecSupervisorFair ==
  /\ SpecSupervisor
  /\ WF_vars(\E c \in 1..Len(startCalls) : StartupTimeout(c))
  /\ WF_vars(\E c \in 1..Len(startCalls) : HealthAnswer(c))
  /\ WF_vars(\E c \in 1..Len(startCalls) : SpawnError(c))

\* ------------------------------------------------------------------------
\* Sentiment maintenance actions
\* ------------------------------------------------------------------------
core == <<gvars, rvars, fvars, pvars, svars>>

InitSentiment ==
  /\ socialPosts \in [PostIdSet -> {Unanalysed, AutoLabelled("neutral")}]
  /\ changeLog = <<>>
  /\ overrides = [k \in 1..MaxOverrides |-> NoOverride]
  /\ job = NoJob
  /\ GatewayIdle
  /\ RunIdle
  /\ FetchIdle
  /\ PersistIdle
  /\ SupervisorIdle
  /\ SchedulerIdle
  /\ TokenIdle

\* updateManualSentiment up to SocialPost.findById
OverrideStart(k) ==
  /\ overrides[k].pc = "idle"
  /\ \E postId \in PostIdSet \cup {undefined}, sentiment \in SentimentInputs,
        user \in Users :
       overrides' = [overrides EXCEPT ![k] =
         IF postId = undefined
         THEN [NoOverride EXCEPT !.pc = "done", !.status = 400]
         ELSE IF sentiment = null \/ toLowerCase(sentiment) \notin allowed
         THEN [NoOverride EXCEPT !.pc = "done", !.status = 400]
         ELSE [NoOverride EXCEPT !.pc = "find", !.postId = postId, !.user = user,
                                 !.sentiment = toLowerCase(sentiment)]]
  /\ UNCHANGED <<socialPosts, changeLog, job>>
  /\ UNCHANGED <<core, cvars, tvars>>

\* const existing = await SocialPost.findById(postId).select({ sentiment: 1 })
OverrideFind(k) ==
  /\ overrides[k].pc = "find"
  /\ \E ok \in BOOLEAN :
       overrides' = [overrides EXCEPT ![k] =
         IF ok
         THEN [@ EXCEPT !.pc = "update",
                        !.existing = socialPosts[overrides[k].postId].sentiment]
         ELSE [NoOverride EXCEPT !.pc = "done", !.status = 500]]
  /\ UNCHANGED <<socialPosts, changeLog, job>>
  /\ UNCHANGED <<core, cvars, tvars>>

\* await applySentimentUpdate(postId, ..., { markManual: true })
OverrideUpdate(k) ==
  /\ overrides[k].pc = "update"
  /\ \E ok \in BOOLEAN :
       IF ok
       THEN /\ socialPosts' = applySentimentUpdate(socialPosts, overrides[k].postId,
                                                   overrides[k].sentiment)
            /\ overrides' = [overrides EXCEPT
                               ![k].pc = "log",
                               ![k].wrote = TRUE,
                               ![k].before = socialPosts[overrides[k].postId].sentiment]
       ELSE /\ overrides' = [overrides EXCEPT ![k] =
                               [NoOverride EXCEPT !.pc = "done", !.status = 500]]
            /\ UNCHANGED socialPosts
  /\ UNCHANGED <<changeLog, job>>
  /\ UNCHANGED <<core, cvars, tvars>>

\* SentimentChangeLog.create in its own try/catch, then res.json
OverrideLog(k) ==
  /\ overrides[k].pc = "log"
  /\ \E ok \in BOOLEAN :
       changeLog' = IF ok
                    THEN Append(changeLog,
                                [post |-> overrides[k].postId,
                                 oldSentiment |-> overrides[k].existing,
                                 newSentiment |-> overrides[k].sentiment,
                                 user |-> overrides[k].user,
                                 request |-> k])
                    ELSE changeLog
  /\ overrides' = [overrides EXCEPT ![k].pc = "done", ![k].status = 200]
  /\ UNCHANGED <<socialPosts, job>>
  /\ UNCHANGED <<core, cvars, tvars>>

\* a job starts and reads the posts its filter selects; the re-analysis script
\* reads hydrated documents, and whether the copy the Gateway makes of one
\* ({ ...post }) still has its _id depends on the document class
JobStart ==
  /\ job.kind = "none"
  /\ job.pc = "idle"
  /\ \E kind \in JOBS, keepsId \in BOOLEAN :
       /\ kind # "reanalyze" => keepsId
       /\ job' = [kind |-> kind,
                  pc |-> IF SelectedIds(kind) = <<>> THEN "done" ELSE "analyze",
                  found |-> SelectedIds(kind), analyzed |-> <<>>, pos |-> 0,
                  keepsId |-> keepsId]
  /\ UNCHANGED <<socialPosts, changeLog, overrides>>
  /\ UNCHANGED <<core, cvars, tvars>>

\* await analyzePostsSentiment(batch, ...) and the loop header over its answer
JobAnalyze ==
  /\ job.pc = "analyze"
  /\ \E labels \in [1..Len(job.found) -> AnalysisLabels], threw \in BOOLEAN :
       job' = IF threw \/ job.kind = "batchAnalyze"
              THEN [job EXCEPT !.pc = "done"]
              ELSE [job EXCEPT !.pc = "save", !.pos = 1,
                               !.analyzed = [k \in 1..Len(job.found) |->
                                  [id |-> IF job.keepsId THEN job.found[k] ELSE undefined,
                                   sentiment |-> labels[k]]]]
  /\ UNCHANGED <<socialPosts, changeLog, overrides>>
  /\ UNCHANGED <<core, cvars, tvars>>

\* one await SocialPost.updateOne({ _id: post._id }, { $set }) of the job
JobSave ==
  /\ job.pc = "save"
  /\ socialPosts' = JobUpdateOne(job.kind, socialPosts, job.analyzed[job.pos].id,
                                 job.analyzed[job.pos].sentiment)
  /\ job' = IF job.pos = Len(job.analyzed)
            THEN [job EXCEPT !.pc = "done"]
            ELSE [job EXCEPT !.pos = job.pos + 1]
  /\ UNCHANGED <<changeLog, overrides>>
  /\ UNCHANGED <<core, cvars, tvars>>

NextSentiment ==
  \/ \E k \in 1..MaxOverrides : OverrideStart(k)
  \/ \E k \in 1..MaxOverrides : OverrideFind(k)
  \/ \E k \in 1..MaxOverrides : OverrideUpdate(k)
  \/ \E k \in 1..MaxOverrides : OverrideLog(k)
  \/ JobStart
  \/ JobAnalyze
  \/ JobSave

SpecSentiment == InitSentiment /\ [][NextSentiment]_vars

\* ------------------------------------------------------------------------
\* Scheduler actions
\* ------------------------------------------------------------------------
InitScheduler ==
  /\ booted = FALSE
  /\ groupStatus \in [GroupKeys -> {"running", "paused"}]
  /\ cronJobs = [k \in GroupKeys |-> 0]
  /\ cronTasks = <<>>
  /\ lastSeen = [k \in GroupKeys |-> "none"]
  /\ toggles = [t \in 1..MaxToggles |-> NoToggle]
  /\ groupRuns = [r \in 1..MaxConcurrentRuns |-> NoGroupRun]
  /\ GatewayIdle
  /\ RunIdle
  /\ FetchIdle
  /\ PersistIdle
  /\ SupervisorIdle
  /\ SentimentIdle
  /\ TokenIdle

\* scheduleAllGroups at server start, before app.listen
ScheduleAllGroups ==
  /\ ~booted
  /\ booted' = TRUE
  /\ LET one == scheduleKeywordGroup(cronJobs, cronTasks, "b1_g1", groupStatus["b1_g1"])
         two == scheduleKeywordGroup(one.jobs, one.tasks, "b1_g2", groupStatus["b1_g2"])
     IN /\ cronJobs' = two.jobs
        /\ cronTasks' = two.tasks
  /\ lastSeen' = groupStatus
  /\ UNCHANGED <<groupStatus, toggles, groupRuns>>
  /\ UNCHANGED <<core, mvars, tvars>>

\* toggleKeywordGroupStatus up to brand.save()
ToggleStart(t) ==
  /\ booted
  /\ toggles[t].pc = "idle"
  /\ \E key \in GroupKeys, action \in {"start", "pause", "stop"} :
       toggles' = [toggles EXCEPT ![t] =
         IF action = "start"
         THEN [pc |-> "save", key |-> key, status |-> "running", http |-> 0]
         ELSE IF action = "pause"
         THEN [pc |-> "save", key |-> key, status |-> "paused", http |-> 0]
         ELSE [NoToggle EXCEPT !.http = 400]]
  /\ UNCHANGED <<booted, groupStatus, cronJobs, cronTasks, lastSeen, groupRuns>>
  /\ UNCHANGED <<core, mvars, tvars>>

\* brand.save() reaches the database
ToggleSave(t) ==
  /\ toggles[t].pc = "save"
  /\ groupStatus' = [groupStatus EXCEPT ![toggles[t].key] = toggles[t].status]
  /\ toggles' = [toggles EXCEPT ![t].pc = "schedule"]
  /\ UNCHANGED <<booted, cronJobs, cronTasks, lastSeen, groupRuns>>
  /\ UNCHANGED <<core, mvars, tvars>>

\* the handler resumes: scheduleKeywordGroup(brand, group) and the answer
ToggleSchedule(t) ==
  /\ toggles[t].pc = "schedule"
  /\ toggles[t].status = "running" => Len(cronTasks) < MaxCronTasks
  /\ LET out == scheduleKeywordGroup(cronJobs, cronTasks, toggles[t].key,
                                      toggles[t].status)
     IN /\ cronJobs' = out.jobs
        /\ cronTasks' = out.tasks
  /\ lastSeen' = [lastSeen EXCEPT ![toggles[t].key] = toggles[t].status]
  /\ toggles' = [toggles EXCEPT ![t] = NoToggle]
  /\ UNCHANGED <<booted, groupStatus, groupRuns>>
  /\ UNCHANGED <<core, mvars, tvars>>

\* runKeywordGroupSearch up to its paused check, called by a cron task that
\* was not stopped or by a manual request
GroupRunStart(r) ==
  /\ booted
  /\ groupRuns[r].pc = "idle"
  /\ \E key \in GroupKeys, trigger \in {"cron", "manual"} :
       /\ trigger = "cron" => LiveTasks(key) # {}
       /\ groupRuns' = [groupRuns EXCEPT ![r] =
            IF groupStatus[key] = "paused"
            THEN [NoGroupRun EXCEPT !.http = 400]
            ELSE [pc |-> "running", key |-> key, http |-> 0]]
  /\ UNCHANGED <<booted, groupStatus, cronJobs, cronTasks, lastSeen, toggles>>
  /\ UNCHANGED <<core, mvars, tvars>>

\* the run answers
GroupRunEnd(r) ==
  /\ groupRuns[r].pc = "running"
  /\ groupRuns' = [groupRuns EXCEPT ![r] = [NoGroupRun EXCEPT !.http = 200]]
  /\ UNCHANGED <<booted, groupStatus, cronJobs, cronTasks, lastSeen, toggles>>
  /\ UNCHANGED <<core, mvars, tvars>>

NextScheduler ==
  \/ ScheduleAllGroups
  \/ \E t \in 1..MaxToggles : ToggleStart(t)
  \/ \E t \in 1..MaxToggles : ToggleSave(t)
  \/ \E t \in 1..MaxToggles : ToggleSchedule(t)
  \/ \E r \in 1..MaxConcurrentRuns : GroupRunStart(r)
  \/ \E r \in 1..MaxConcurrentRuns : GroupRunEnd(r)

SpecScheduler == InitScheduler /\ [][NextScheduler]_vars

\* ------------------------------------------------------------------------
\* Reddit bearer token actions
\* ------------------------------------------------------------------------
InitToken ==
  /\ cachedToken = 0
  /\ tokenExpired = FALSE
  /\ tokensIssued = 0
  /\ tokenCalls = [c \in 1..MaxTokenCalls |-> NoTokenCall]
  /\ GatewayIdle
  /\ RunIdle
  /\ FetchIdle
  /\ PersistIdle
  /\ SupervisorIdle
  /\ SentimentIdle
  /\ SchedulerIdle

\* getRedditAccessToken up to its await: the cached token, or a refresh request
GetRedditAccessToken(c) ==
  /\ tokenCalls[c].pc = "idle"
  /\ tokenCalls' = [tokenCalls EXCEPT ![c] =
       IF CacheIsValid
       THEN [pc |-> "returned", token |-> cachedToken]
       ELSE [pc |-> "refreshing", token |-> 0]]
  /\ UNCHANGED <<cachedToken, tokenExpired, tokensIssued>>
  /\ UNCHANGED <<core, mvars, cvars>>

\* the token endpoint answers the refresh request of call c
RefreshAnswer(c) ==
  /\ tokenCalls[c].pc = "refreshing"
  /\ \E ok \in BOOLEAN :
       IF ok
       THEN /\ tokensIssued' = tokensIssued + 1
            /\ cachedToken' = tokensIssued + 1
            /\ tokenExpired' = FALSE
            /\ tokenCalls' = [tokenCalls EXCEPT ![c] =
                 [pc |-> "returned", token |-> tokensIssued + 1]]
       ELSE /\ tokenCalls' = [tokenCalls EXCEPT ![c] = [pc |-> "threw", token |-> 0]]
            /\ UNCHANGED <<cachedToken, tokenExpired, tokensIssued>>
  /\ UNCHANGED <<core, mvars, cvars>>

\* time passes tokenExpiry
TokenExpires ==
  /\ cachedToken # 0
  /\ ~tokenExpired
  /\ tokenExpired' = TRUE
  /\ UNCHANGED <<cachedToken, tokensIssued, tokenCalls>>
  /\ UNCHANGED <<core, mvars, cvars>>

NextToken ==
  \/ \E c \in 1..MaxTokenCalls : GetRedditAccessToken(c)
  \/ \E c \in 1..MaxTokenCalls : RefreshAnswer(c)
  \/ TokenExpires

SpecToken == InitToken /\ [][NextToken]_vars

\* ------------------------------------------------------------------------
\* Properties of the Gateway
\* ------------------------------------------------------------------------
CallIdx == 1..Len(calls)

\* the call that settled its sub-batch: no further attempt follows it
IsLastAttempt(n) ==
  IF n < Len(calls) THEN calls[n + 1].start # calls[n].start
  ELSE gpc = "done" \/ i > calls[n].start

\* C1: when the batch analyze returns, results holds exactly one entry per
\* input post and successful + failed equals the number of input posts,
\* whatever the remote answered (short, malformed, failing).
C1_EveryPostAccounted ==
  (mode = "batch" /\ gpc = "done") =>
    /\ Len(results) = Len(posts)
    /\ successful + failed = Len(posts)
    /\ \A k \in 1..Len(posts) :
         Cardinality({ m \in 1..Len(results) : results[m].post = posts[k] }) = 1

C1_Witness ==
  /\ mode = "batch" /\ gpc = "done"
  /\ Len(posts) >= 2 /\ Len(calls) >= 2
  /\ successful >= 1 /\ failed >= 1
  /\ \E n \in CallIdx : calls[n].kind = "ok" /\ Len(calls[n].answer) < Len(calls[n].sent)

\* C2: results[k] is the annotation of posts[k]: it carries posts[k] and the
\* outcome built from the remote answer at the position posts[k] was sent in,
\* across sub-batch boundaries and failed sub-batches.
C2_ResultsInInputOrder ==
  mode = "batch" =>
    /\ Len(results) <= Len(posts)
    /\ \A k \in 1..Len(results) : results[k].post = posts[k]
    /\ \A n \in CallIdx : \A j \in 1..Len(calls[n].sent) :
         (calls[n].kind = "ok" /\ calls[n].sent[j] <= Len(results)) =>
           LET k == calls[n].sent[j]
           IN /\ k = calls[n].start + j
              /\ IF j <= Len(calls[n].answer) /\ Truthy(calls[n].answer[j].sentiment)
                 THEN results[k].sentiment = calls[n].answer[j].sentiment
                 ELSE results[k].sentiment = null

C2_Witness ==
  /\ mode = "batch" /\ gpc = "done" /\ Len(posts) >= 3
  /\ \E n, m \in CallIdx :
       /\ n < m
       /\ calls[n].kind # "ok"
       /\ calls[m].kind = "ok" /\ Len(calls[m].answer) >= 1
       /\ Truthy(calls[m].answer[1].sentiment)

\* C3: a post without extractable text (empty, whitespace-only or shorter
\* than 3 characters after normalisation) is in no request sent to /analyze
\* and ends with a NO_TEXT outcome without a label, in the batch call as in
\* the single-post call.
C3_NoTextNeverSent ==
  /\ \A n \in CallIdx : \A j \in 1..Len(calls[n].sent) :
       extractText(posts[calls[n].sent[j]]) # <<>>
  /\ \A k \in 1..Len(results) :
       extractText(results[k].post) = <<>> =>
         /\ results[k].sentiment = null
         /\ "NO_TEXT" \in {results[k].error, results[k].sentimentError}

\* C4: an attempt that fails with a transport-class failure before the retry
\* budget is used up is followed by a further attempt for the same sub-batch,
\* after a delay of retryDelayMs * 2^attempt.
C4_TransportFailureRetried ==
  \A n \in CallIdx :
    (TransportClass(calls[n]) /\ calls[n].attempt < maxRetries) =>
      /\ ~IsLastAttempt(n)
      /\ Len(delays) >= 1
      /\ n < Len(calls) => calls[n + 1].attempt = calls[n].attempt + 1

\* C5: a sub-batch whose call fails with a validation/4xx-class failure is
\* attempted exactly once, and all its posts are recorded at once as failed
\* with an error outcome.
C5_ValidationNeverRetried ==
  \A n \in CallIdx :
    ValidationClass(calls[n]) =>
      /\ calls[n].attempt = 0
      /\ IsLastAttempt(n)
      /\ Cardinality({ m \in CallIdx : calls[m].start = calls[n].start }) = 1
      /\ \A j \in 1..Len(calls[n].sent) :
           LET k == calls[n].sent[j]
           IN /\ k <= Len(results)
              /\ results[k].sentiment = null
              /\ results[k].sentimentSource = "error"

C5_Witness ==
  /\ gpc = "done" /\ mode = "batch" /\ Len(posts) >= 2
  /\ \E n \in CallIdx : ValidationClass(calls[n]) /\ Len(calls[n].sent) >= 2

\* C6: when the last attempt for a sub-batch has failed, every post of that
\* sub-batch is in results with sentiment null, source "error" and an error
\* code; none is dropped.
C6_FailedBatchFullyMarked ==
  mode = "batch" =>
    \A n \in CallIdx :
      (calls[n].kind # "ok" /\ IsLastAttempt(n)) =>
        \A j \in 1..Len(calls[n].sent) :
          LET k == calls[n].sent[j]
          IN /\ k <= Len(results)
             /\ results[k].post = posts[k]
             /\ results[k].sentiment = null
             /\ results[k].sentimentSource = "error"
             /\ Truthy(results[k].sentimentError)

C6_Witness ==
  /\ mode = "batch" /\ gpc = "done"
  /\ \E n \in CallIdx :
       /\ calls[n].kind = "noresponse" /\ Len(calls[n].sent) >= 2
       /\ n < Len(calls)

\* C7: every outcome carries a label among positive, neutral, negative
\* together with a score, or carries an error marker.
C7_LabelOrError ==
  \A k \in 1..Len(results) :
    \/ results[k].sentiment \in SENTIMENT_LABELS /\ Truthy(results[k].sentimentScore)
    \/ Truthy(results[k].sentimentError)
    \/ Truthy(results[k].error)

\* ------------------------------------------------------------------------
\* Properties of the Orchestrator
\* ------------------------------------------------------------------------
StoredKeys(st) == { Key(d) : d \in st }

\* C8: a run during which the scoring service is unreachable still answers
\* with its summary; the Gateway returned one error-sourced outcome per
\* fetched post, and every fetched post is in the store, the ones this run
\* added with a null sentiment.
C8_DegradedRunStillStores ==
  (rpc = "done" /\ remoteKind = "noresponse") =>
    /\ response.status = 200 /\ response.success
    /\ response.fetched = Len(postsToInsert)
    /\ Len(gatewayOut) = Len(postsToInsert)
    /\ \A k \in 1..Len(gatewayOut) :
         /\ gatewayOut[k].post = postsToInsert[k]
         /\ gatewayOut[k].sentiment = null
         /\ gatewayOut[k].sentimentSource = "error"
    /\ \A k \in 1..Len(postsToInsert) : Key(postsToInsert[k]) \in StoredKeys(store)
    /\ \A d \in inserted : ~Truthy(d.sentiment)

\* C9: the resolved execution list holds no group that was paused (by status
\* or by flag) when the request was served, and no Fetcher is invoked for
\* such a group, in runSearch and in a manual or scheduled group run.
C9_NoFetchForPausedGroup ==
  /\ \A k \in 1..Len(executions) : ~PausedAtRequest(executions[k].id)
  /\ \A f \in fetchLog : ~f.pausedAtRequest

C9_Witness ==
  /\ rkind = "runSearch" /\ fetchLog # {}
  /\ \E k \in 1..Len(reqBrand.keywordGroups) :
       /\ PausedAtRequest(reqBrand.keywordGroups[k]._id)
       /\ reqBrand.keywordGroups[k].status = "running"

AllPausedAtRequest ==
  /\ Len(reqBrand.keywordGroups) > 0
  /\ \A k \in 1..Len(reqBrand.keywordGroups) :
       PausedAtRequest(reqBrand.keywordGroups[k]._id)

ThrewInRun == \E f \in fetchLog : f.threw

\* C11: a run in which a Fetcher call threw still goes through its whole
\* loop (nothing is left to fetch when it answers), answers with its summary,
\* and the posts the other pairs fetched are all analysed and all in the store.
C11_FetchThrowContinues ==
  (rpc = "done" /\ ThrewInRun) =>
    /\ todo = <<>>
    /\ response.status = 200
    /\ Len(gatewayOut) = Len(postsToInsert)
    /\ \A k \in 1..Len(postsToInsert) : Key(postsToInsert[k]) \in StoredKeys(store)

\* ------------------------------------------------------------------------
\* Properties of the Fetcher adapters
\* ------------------------------------------------------------------------
\* the last HTTP request of the call failed
UpstreamFailed == fcalls # <<>> /\ ~fcalls[Len(fcalls)].answer.ok

\* C12: an adapter whose upstream HTTP request failed for good hands back the
\* empty sequence and does not throw.
C12_UpstreamFailureGivesEmpty ==
  (fstage = "done" /\ UpstreamFailed) =>
    /\ ~fresult.threw
    /\ fresult.kind = "array"
    /\ fresult.items = <<>>

\* ------------------------------------------------------------------------
\* Properties of Persistence
\* ------------------------------------------------------------------------
\* C13: whatever way the save blocks of two runs interleave, the collection
\* never holds two documents with the same present sourceUrl and the same
\* platform.
C13_UniquePerUrlAndPlatform ==
  \A d1 \in store : \A d2 \in store :
    (Truthy(d1.sourceUrl) /\ d1.sourceUrl = d2.sourceUrl /\ d1.platform = d2.platform)
      => d1 = d2

\* run 2 began on an empty collection with a batch of distinct posts and was
\* still refused one of them, because run 1, still inserting, got there first
C13_Witness ==
  /\ subs[1].phase = "bulk" /\ subs[1].nInserted > 0
  /\ subs[2].phase = "done" /\ subs[2].storeAtStart = {}
  /\ subs[2].analyzedPosts \in OtherBatches("group")
  /\ subs[2].writeErrors > 0 /\ subs[2].nInserted > 0

AllCarryUrl(batch) == \A n \in 1..Len(batch) : Truthy(batch[n].sourceUrl)

\* C14: a run that hands over, after the other run finished, the very batch
\* the other run handed over (n posts, all with a sourceUrl) reports
\* saved = 0 and duplicates = n and leaves the collection as it found it.
C14_ResubmissionSavesNothing ==
  \A k \in 1..2 :
    (subs[k].phase = "done" /\ subs[k].resubmission /\ AllCarryUrl(subs[k].analyzedPosts)) =>
      /\ subs[k].savedCount = 0
      /\ subs[k].duplicateCount = Len(subs[k].analyzedPosts)
      /\ store = subs[k].storeAtStart

\* what run k added to the collection, while the other run has not started
AddedBy(k) == store \ subs[k].storeAtStart

\* C30: the saved count a run reports is the number of posts the run added
\* to the store, for batches mixing new and duplicate posts and for bulk
\* inserts that stored some posts before failing as well.
C30_SavedCountIsAdded ==
  \A k \in 1..2 :
    (subs[k].phase = "done" /\ subs[3 - k].phase = "idle") =>
      subs[k].savedCount = Cardinality(AddedBy(k))

\* C15: a finished save block reports saved + duplicates <= batch length,
\* after the bulk insert and after the one-at-a-time fallback alike.
C15_CountsWithinBatch ==
  \A k \in 1..2 :
    subs[k].phase = "done" =>
      subs[k].savedCount + subs[k].duplicateCount <= Len(subs[k].analyzedPosts)

C15_Witness ==
  \E k \in 1..2 :
    /\ subs[k].phase = "done" /\ subs[k].bulkFailed = "other"
    /\ subs[k].savedCount > 0 /\ subs[k].duplicateCount > 0
    /\ subs[3 - k].phase = "done" /\ subs[3 - k].bulkFailed = "none"
    /\ subs[3 - k].savedCount = Len(subs[3 - k].analyzedPosts)

\* C16: when the bulk insert raised duplicate-key violations, the run's
\* duplicates total is the number of those violations and the error was not
\* logged as an error.
C16_DuplicatesCountedNotLogged ==
  \A k \in 1..2 :
    subs[k].bulkFailed = "duplicate" =>
      /\ ~subs[k].errorLogged
      /\ subs[k].phase = "done"
      /\ subs[k].duplicateCount = subs[k].writeErrors

C16_Witness ==
  \E k \in 1..2 :
    /\ subs[k].bulkFailed = "duplicate"
    /\ subs[k].writeErrors = 1 /\ subs[k].nInserted = 1

\* C17: after a bulk insert that failed as a whole with a non-duplicate
\* error, every valid document of the batch is in the collection (inserted
\* now, or there already), whatever else the batch holds.
C17_FallbackStoresValidDocs ==
  \A k \in 1..2 :
    (subs[k].phase = "done" /\ subs[k].bulkFailed = "other") =>
      \A n \in 1..Len(subs[k].analyzedPosts) :
        Valid(subs[k].analyzedPosts[n]) =>
          Key(subs[k].analyzedPosts[n]) \in StoredKeys(store)

\* the malformed record came first and the one after it was still stored
C17_Witness ==
  \E k \in 1..2 :
    /\ subs[k].phase = "done" /\ subs[k].bulkFailed = "other"
    /\ Len(subs[k].analyzedPosts) = 2
    /\ ~Valid(subs[k].analyzedPosts[1])
    /\ subs[k].analyzedPosts[2] \in store \ subs[k].storeAtStart
    /\ subs[k].savedCount = 1

\* ------------------------------------------------------------------------
\* Properties of the Orchestrator: answers and tagging
\* ------------------------------------------------------------------------
\* C18: a run is refused only before it fetches anything (400); once it has
\* called a Fetcher it answers 200 with its counts, whatever failed.
C18_RunAlwaysAnswersSummary ==
  rpc = "done" =>
    \/ (response.status = 400 /\ fetchLog = {})
    \/ /\ response.status = 200 /\ response.success
       /\ response.fetched = Len(postsToInsert)
       /\ response.analyzed + response.failed = response.fetched
       /\ response.saved \in 0..response.fetched

\* the name of the execution with this id, as the request saw the brand
ExecutionName(id) ==
  IF \E k \in 1..Len(reqBrand.keywordGroups) : reqBrand.keywordGroups[k]._id = id
  THEN LET k == CHOOSE k \in 1..Len(reqBrand.keywordGroups) :
                  reqBrand.keywordGroups[k]._id = id
       IN reqBrand.keywordGroups[k].groupName
  ELSE reqBrand.brandName

\* the posts are with Persistence
HandedToPersistence == rpc = "save" \/ (rpc = "done" /\ response.status = 200)

\* C19: every post handed to Persistence carries the brand name, the keyword
\* and platform of a Fetcher call of the run, and the id and name of the
\* execution that made that call; the annotation stage changed none of them.
C19_PostsCarryTheirOrigin ==
  HandedToPersistence =>
    /\ Len(analyzedPosts) = Len(postsToInsert)
    /\ \A k \in 1..Len(analyzedPosts) :
         LET d == analyzedPosts[k]
             q == postsToInsert[k]
         IN /\ d.brandName = reqBrand.brandName
            /\ <<d.keyword, d.platform, d.groupId, d.groupName, d.sourceUrl>>
                 = <<q.keyword, q.platform, q.groupId, q.groupName, q.sourceUrl>>
            /\ \E f \in fetchLog :
                 /\ ~f.threw
                 /\ f.keyword = d.keyword /\ f.platform = d.platform
                 /\ f.group = d.groupId
                 /\ ExecutionName(f.group) = d.groupName

\* ------------------------------------------------------------------------
\* Properties of the Supervisor
\* ------------------------------------------------------------------------
\* no two children spawned by the Supervisor are alive together
AtMostOneChildAlive == Cardinality(Alive) <= 1

\* C20: whatever the order of start() calls, stop() calls, child exits and
\* startup timeouts, at most one spawned scoring-service process is alive, and
\* a start() issued while the service is already starting or running has not
\* spawned a process.
C20_StartIsIdempotent ==
  /\ AtMostOneChildAlive
  /\ external => Alive = {}

\* a start() call that neither handled a recognised ready line nor got a
\* positive health probe
NeverReady(c) == startCalls[c].readyBy = "none"

\* C21: a start attempt that sees neither a recognised ready line nor a
\* successful health probe before its 60 second timer never reports success,
\* and it does not stay pending: it is settled as a failure while the server
\* process is up.
C21_UnreadyStartFails ==
  /\ [](\A c \in 1..Len(startCalls) :
          NeverReady(c) => startCalls[c].outcome # "resolved")
  /\ \A c \in 1..MaxStartCalls :
       (c <= Len(startCalls) /\ startCalls[c].pc \in {"health", "pending"})
         ~> \/ node = "exited"
            \/ c <= Len(startCalls) /\ startCalls[c].outcome = "resolved"
                                    /\ ~NeverReady(c)
            \/ c <= Len(startCalls) /\ startCalls[c].outcome = "rejected"

\* a start() call was rejected by its timer while its child was still loading
C21_Witness ==
  \E c \in 1..Len(startCalls) :
    /\ startCalls[c].outcome = "rejected"
    /\ NeverReady(c)
    /\ ~startCalls[c].timeoutPending
    /\ children[startCalls[c].pid] = "loading"

\* restarts registered so far: timers still pending and timers that fired
RestartsScheduled ==
  Len(timers) + Cardinality({ c \in 1..Len(startCalls) : startCalls[c].origin = "timer" })

\* C22: the Supervisor schedules at most 3 restarts in total, each for 5
\* seconds after an exit with a non-zero code of a child that is gone, and
\* with 3 restarts used up no further one is registered.
C22_AtMostThreeRestarts ==
  /\ RestartsScheduled <= 3
  /\ RestartsScheduled = restartCount
  /\ \A k \in 1..Len(timers) :
       /\ timers[k].delayMs = 5000
       /\ timers[k].code \notin {"0", "null"}
       /\ children[timers[k].after] = "dead"
  /\ restartCount = 3 => Len(timers) <= 1

\* the Supervisor has given up: three restarts were used, the fourth child
\* exited with a non-zero code and nothing is pending
C22_Witness ==
  /\ node = "up"
  /\ restartCount = 3
  /\ timers = <<>>
  /\ \A p \in Pids : children[p] \in {"dead", "failed"}
  /\ children[MaxStartCalls] = "dead"

\* stop() has been called: the server process has gone through its shutdown
StopCalled == node = "exited"

\* a child process is spawned in this step
Spawns == \E p \in Pids : children[p] = "none" /\ children'[p] # "none"

\* C29: once stop() has been called the supervisor spawns no scoring
\* process any more (the server makes no later start() call); a restart
\* timer pending at that moment never starts one.
C29_NoSpawnAfterStop ==
  [][StopCalled => ~Spawns]_vars

\* stop() was called while a restart timer was pending
C29_Witness == StopCalled /\ timers # <<>>

\* ------------------------------------------------------------------------
\* Properties of sentiment maintenance
\* ------------------------------------------------------------------------
\* the change-log entries written by override request k
EntriesOf(k) == { e \in 1..Len(changeLog) : changeLog[e].request = k }

\* C23: every manual override answered as successful has exactly one
\* change-log entry, which records the sentiment the post had immediately
\* before the write, the new sentiment and the acting user.
C23_OverrideIsLogged ==
  \A k \in 1..MaxOverrides :
    overrides[k].status = 200 =>
      /\ Cardinality(EntriesOf(k)) = 1
      /\ \A e \in EntriesOf(k) :
           /\ changeLog[e].oldSentiment = overrides[k].before
           /\ changeLog[e].newSentiment = overrides[k].sentiment
           /\ changeLog[e].user = overrides[k].user

\* C24: no step of an automated job (backfill, re-analysis script,
\* batch-analyze endpoint) changes the sentiment of a post that is flagged as
\* manually set.
C24_JobsSkipManualPosts ==
  [][job'.pos # job.pos =>
       \A p \in PostIdSet :
         socialPosts[p].sentimentIsManual =>
           socialPosts'[p].sentiment = socialPosts[p].sentiment]_vars

\* ------------------------------------------------------------------------
\* Properties of the Scheduler
\* ------------------------------------------------------------------------
\* the runs of a group that are in progress
RunsInProgress(key) ==
  { r \in 1..MaxConcurrentRuns : groupRuns[r].pc = "running" /\ groupRuns[r].key = key }

\* C25: at most one run of a keyword group is in progress at any time.
C25_NoReentrantGroupRun ==
  \A key \in GroupKeys : Cardinality(RunsInProgress(key)) <= 1

\* C28: every key has at most one cron task that was not stopped, and none
\* when the latest scheduling call for it saw the group paused.
C28_OneLiveJobPerKey ==
  \A key \in GroupKeys :
    /\ Cardinality(LiveTasks(key)) <= 1
    /\ lastSeen[key] = "paused" => LiveTasks(key) = {}

\* a group was rescheduled twice: once running over a live job, then paused
C28_Witness ==
  \E key \in GroupKeys :
    /\ lastSeen[key] = "paused"
    /\ Cardinality({ j \in 1..Len(cronTasks) :
                       cronTasks[j].key = key /\ cronTasks[j].stopped }) >= 2

\* ------------------------------------------------------------------------
\* Properties of the Reddit bearer token
\* ------------------------------------------------------------------------
\* C26: at most one token refresh request is in flight at any time.
C26_OneRefreshInFlight == Cardinality(RefreshesInFlight) <= 1

====
